---- MODULE Spec2Model ----
(***************************************************************************)
(* schema-manager: the generate command, the migration replay              *)
(* (sql_parser.go), the schema differ (diff.go) and the migration SQL      *)
(* generator (generate.go).                                                *)
(*                                                                         *)
(* Text is modelled structurally.  A Go string that holds a type, a name   *)
(* or a cast fragment is a TLA+ string; strings.ToUpper / strings.ToLower  *)
(* are the tables of CaseTable.  SQL text is a sequence of lines; a line   *)
(* is a record whose field k says what the line is: a goose marker, a      *)
(* comment, or one SQL statement with the pieces the parser's regular      *)
(* expressions pick out of it.                                             *)
(***************************************************************************)
EXTENDS Naturals, Sequences, FiniteSets, TLC

VARIABLES
    schemaFile,   \* schema.prisma, as ParsePrismaFileToSchema reads it
    migrations,   \* the migrations directory: file name -> file text (lines)
    now,          \* the wall clock, in seconds (time.Now())
    pc,           \* generate command: "idle", or "confirm" while it waits on stdin
    pending,      \* the diff and --name a waiting generate command holds
    out,          \* what the last command printed as its outcome
    shown,        \* the risks the last generate command printed
    pa, pb,       \* two schemas handed to DiffSchemas directly
    pdiff,        \* the SchemaDiff computed from pa, pb (NoDiff before)
    pup, pdown    \* GenerateMigrationSQL / GenerateDownMigrationSQL of pdiff

cmdVars  == <<schemaFile, migrations, now, pc, pending, out, shown>>
pureVars == <<pa, pb, pdiff, pup, pdown>>
vars     == <<schemaFile, migrations, now, pc, pending, out, shown,
              pa, pb, pdiff, pup, pdown>>

(***************************************************************************)
(* Bounds of the model.                                                    *)
(***************************************************************************)
MaxClock == 1      \* seconds the clock may advance

(***************************************************************************)
(* Generic helpers.                                                        *)
(***************************************************************************)
Range(s) == {s[i] : i \in 1..Len(s)}

RECURSIVE Flatten(_)
Flatten(ss) == IF ss = <<>> THEN <<>> ELSE Head(ss) \o Flatten(Tail(ss))

\* Every order in which the elements of a finite set can be met: the
\* iteration orders of a Go map holding them.
PermsOf(S) ==
    {p \in [1..Cardinality(S) -> S] : \A i, j \in 1..Cardinality(S) : i # j => p[i] # p[j]}

(***************************************************************************)
(* strings.ToUpper and strings.ToLower, on the strings the model uses.     *)
(* Each row: a string, its upper-case form, its lower-case form.           *)
(***************************************************************************)
CaseTable ==
    { <<"String", "STRING", "string">>,   <<"Int", "INT", "int">>,
      <<"PRIMARY", "PRIMARY", "primary">>,
      <<"KEY", "KEY", "key">>,
      <<"FOREIGN", "FOREIGN", "foreign">>,
      <<"UNIQUE", "UNIQUE", "unique">>,
      <<"CONSTRAINT", "CONSTRAINT", "constraint">>,
      <<"CHECK", "CHECK", "check">>,
      <<"NOT", "NOT", "not">>,
      <<"NULL", "NULL", "null">>,
      <<"VARCHAR", "VARCHAR", "varchar">>,
      <<"PRECISION", "PRECISION", "precision">>,
      <<"price", "PRICE", "price">>,
      <<"prices", "PRICES", "prices">>,
      <<"products", "PRODUCTS", "products">>,
      <<"createdAt", "CREATEDAT", "createdat">>,
      <<"metadata", "METADATA", "metadata">>,
      <<"amount", "AMOUNT", "amount">>,
      <<"active", "ACTIVE", "active">>,
      <<"qty", "QTY", "qty">>,
      <<"status", "STATUS", "status">>,
      <<"Status", "STATUS", "status">>,
      <<"Product", "PRODUCT", "product">>,
      <<"Tag", "TAG", "tag">>,
      <<"tags", "TAGS", "tags">>,
      <<"email", "EMAIL", "email">>,
      <<"DEFAULT", "DEFAULT", "default">>,
      <<"REFERENCES", "REFERENCES", "references">>,
      <<"Float", "FLOAT", "float">>,      <<"Boolean", "BOOLEAN", "boolean">>,
      <<"BigInt", "BIGINT", "bigint">>,   <<"Decimal", "DECIMAL", "decimal">>,
      <<"DateTime", "DATETIME", "datetime">>, <<"Json", "JSON", "json">>,
      <<"Role", "ROLE", "role">>,         <<"User", "USER", "user">>,
      <<"Post", "POST", "post">>,
      <<"TEXT", "TEXT", "text">>,         <<"INTEGER", "INTEGER", "integer">>,
      <<"SERIAL", "SERIAL", "serial">>,   <<"NUMERIC", "NUMERIC", "numeric">>,
      <<"TIMESTAMP", "TIMESTAMP", "timestamp">>, <<"JSONB", "JSONB", "jsonb">>,
      <<"DOUBLE PRECISION", "DOUBLE PRECISION", "double precision">>,
      <<"DOUBLE", "DOUBLE", "double">>,
      <<"VARCHAR(255)", "VARCHAR(255)", "varchar(255)">>,
      <<"DECIMAL(10,2)", "DECIMAL(10,2)", "decimal(10,2)">>,
      <<"users", "USERS", "users">>,      <<"posts", "POSTS", "posts">>,
      <<"id", "ID", "id">>,               <<"name", "NAME", "name">>,
      <<"age", "AGE", "age">>,            <<"title", "TITLE", "title">>,
      <<"legacy", "LEGACY", "legacy">>,   <<"authorId", "AUTHORID", "authorid">>,
      <<"author_id", "AUTHOR_ID", "author_id">>,
      <<"author", "AUTHOR", "author">>,
      <<"Cascade", "CASCADE", "cascade">>, <<"SetNull", "SETNULL", "setnull">>,
      <<"y", "Y", "y">>, <<"yes", "YES", "yes">>, <<"Yes", "YES", "yes">>,
      <<"n", "N", "n">>, <<"", "", "">>,
      <<"INTEGER USING name::INTEGER", "INTEGER USING NAME::INTEGER",
        "integer using name::integer">>,
      <<"TEXT USING name::TEXT", "TEXT USING NAME::TEXT", "text using name::text">>,
      <<"TEXT USING age::TEXT", "TEXT USING AGE::TEXT", "text using age::text">>,
      <<"INTEGER USING age::INTEGER", "INTEGER USING AGE::INTEGER",
        "integer using age::integer">>,
      <<"DOUBLE PRECISION USING age::DOUBLE PRECISION",
        "DOUBLE PRECISION USING AGE::DOUBLE PRECISION",
        "double precision using age::double precision">>,
      <<"FLOAT USING age::DOUBLE PRECISION", "FLOAT USING AGE::DOUBLE PRECISION",
        "float using age::double precision">> }

CaseRow(s) == CHOOSE r \in CaseTable : s \in {r[1], r[2], r[3]}
ToUpper(s) == CaseRow(s)[2]
ToLower(s) == CaseRow(s)[3]

(***************************************************************************)
(* The data model (source.go): Schema, Model, Field, attributes, Enum.     *)
(***************************************************************************)
Attr(name, args) == [Name |-> name, Args |-> args]

Field(name, column, type, attrs, optional, array) ==
    [Name |-> name, ColumnName |-> column, Type |-> type, Attributes |-> attrs,
     IsOptional |-> optional, IsArray |-> array]

Model(name, table, fields, attrs) ==
    [Name |-> name, TableName |-> table, Fields |-> fields, Attributes |-> attrs]

Enum(name, values) == [Name |-> name, Values |-> values]

Schema(models, enums) == [Models |-> models, Enums |-> enums]

EmptySchema == Schema(<<>>, <<>>)

HasAttr(f, name) == \E i \in 1..Len(f.Attributes) : f.Attributes[i].Name = name

(***************************************************************************)
(* Schema files the operator may write, given by what the schema parser     *)
(* makes of them.                                                          *)
(***************************************************************************)
fId      == Field("id", "id", "Int",
                  <<Attr("id", <<>>), Attr("default", <<"autoincrement()">>)>>, FALSE, FALSE)
fName    == Field("name", "name", "String", <<>>, FALSE, FALSE)
fNameOpt == Field("name", "name", "String", <<>>, TRUE, FALSE)
fNameInt == Field("name", "name", "Int", <<>>, FALSE, FALSE)
fNameVar == Field("name", "name", "String", <<Attr("db.VarChar", <<"255">>)>>, FALSE, FALSE)
fNameUnq == Field("name", "name", "String", <<Attr("unique", <<>>)>>, FALSE, FALSE)
fNameDef == Field("name", "name", "String", <<Attr("default", <<"\"guest\"">>)>>,
                  FALSE, FALSE)
fAge     == Field("age", "age", "Int", <<>>, TRUE, FALSE)
fAgeReq  == Field("age", "age", "Int", <<>>, FALSE, FALSE)
fAgeFlt  == Field("age", "age", "Float", <<>>, TRUE, FALSE)
fAgeStr  == Field("age", "age", "String", <<>>, TRUE, FALSE)
fAgeBool == Field("age", "age", "Boolean", <<>>, TRUE, FALSE)
fRole    == Field("role", "role", "Role", <<>>, FALSE, FALSE)
fPosts   == Field("posts", "posts", "Post", <<>>, FALSE, TRUE)
fTitle   == Field("title", "title", "String", <<>>, FALSE, FALSE)
fAuthId  == Field("authorId", "author_id", "Int", <<Attr("map", <<"\"author_id\"">>)>>,
                  FALSE, FALSE)
fAuthor  == Field("author", "author", "User",
                  <<Attr("relation", <<"fields:[authorId]", "references:[id]",
                                       "onDelete:Cascade">>)>>, FALSE, FALSE)
\* fields written with SQL type words, in lower case
fIdL     == Field("id", "id", "integer", <<>>, FALSE, FALSE)
fNameL   == Field("name", "name", "text", <<>>, FALSE, FALSE)
fNameLV  == Field("name", "name", "text", <<Attr("db.VarChar", <<"255">>)>>, FALSE, FALSE)

mapUsers == <<Attr("map", <<"\"users\"">>)>>
mapPosts == <<Attr("map", <<"\"posts\"">>)>>

Users(fields) == Model("User", "users", fields, mapUsers)
Posts(fields) == Model("Post", "posts", fields, mapPosts)

eRole == Enum("Role", <<"ADMIN", "MEMBER">>)

T0 == EmptySchema
T1 == Schema(<<Users(<<fId, fName>>)>>, <<>>)
T2 == Schema(<<Users(<<fId, fNameOpt>>)>>, <<eRole>>)
T3 == Schema(<<Users(<<fId, fAge>>)>>, <<>>)
L1 == Schema(<<Model("users", "users", <<fIdL, fNameL>>, <<>>)>>, <<>>)
L2 == Schema(<<Model("users", "users", <<fIdL, fNameLV>>, <<>>)>>, <<>>)

SchemaFiles == {T0, T1, T2, T3, L1, L2}

(***************************************************************************)
(* diff.go: type normalisation.                                            *)
(***************************************************************************)
\* strings.HasPrefix(s, "DECIMAL("), on the strings of the model
HasPrefixDECIMAL(s) == s \in {"DECIMAL(10,2)"}

NormalizeTypeForComparison(fieldType, attributes) ==
    CASE fieldType = "TEXT" -> "String"
      [] fieldType = "INTEGER" -> "Int"
      [] fieldType = "BIGINT" -> "BigInt"
      [] fieldType = "SERIAL" -> "Int"
      [] fieldType = "TIMESTAMP" -> "DateTime"
      [] fieldType = "BOOLEAN" -> "Boolean"
      [] fieldType \in {"DOUBLE PRECISION", "FLOAT"} -> "Float"
      [] fieldType \in {"JSONB", "JSON"} -> "Json"
      [] fieldType = "NUMERIC" -> "Decimal"
      [] OTHER -> IF HasPrefixDECIMAL(fieldType) THEN "Decimal" ELSE fieldType

\* strings.HasPrefix(attr.Name, "db.") and strings.TrimPrefix(attr.Name, "db.")
IsDbAttr(name) == name \in {"db.VarChar", "db.Text", "db.Decimal"}
DbType(name) ==
    CASE name = "db.VarChar" -> "VarChar"
      [] name = "db.Text" -> "Text"
      [] name = "db.Decimal" -> "Decimal"
      [] OTHER -> name

\* The loop over field.Attributes of GetSQLTypeForField: the type the first
\* deciding @db attribute gives, "" when none decides.
RECURSIVE DbAttrSQLType(_)
DbAttrSQLType(attrs) ==
    IF attrs = <<>> THEN ""
    ELSE LET attr == Head(attrs)
             dbType == DbType(attr.Name)
         IN  IF IsDbAttr(attr.Name) /\ dbType = "VarChar" /\ Len(attr.Args) > 0
               THEN "VARCHAR(" \o attr.Args[1] \o ")"
             ELSE IF IsDbAttr(attr.Name) /\ dbType = "Text"
               THEN "TEXT"
             ELSE IF IsDbAttr(attr.Name) /\ dbType = "Decimal" /\ Len(attr.Args) >= 2
               THEN "DECIMAL(" \o attr.Args[1] \o "," \o attr.Args[2] \o ")"
             ELSE DbAttrSQLType(Tail(attrs))

GetSQLTypeForField(field) ==
    LET byAttr == DbAttrSQLType(field.Attributes)
        upperType == ToUpper(field.Type)
    IN  IF byAttr # "" THEN byAttr
        ELSE IF HasPrefixDECIMAL(upperType) THEN upperType
        ELSE IF upperType \in {"TEXT", "INTEGER", "BIGINT", "NUMERIC", "TIMESTAMP", "BOOLEAN"}
          THEN upperType
        ELSE IF upperType = "SERIAL" THEN "INTEGER"
        ELSE CASE field.Type = "String" -> "TEXT"
               [] field.Type = "Int" -> "INTEGER"
               [] field.Type = "BigInt" -> "BIGINT"
               [] field.Type = "Float" -> "DOUBLE PRECISION"
               [] field.Type = "Decimal" -> "NUMERIC"
               [] field.Type = "Boolean" -> "BOOLEAN"
               [] field.Type = "DateTime" -> "TIMESTAMP"
               [] field.Type = "Json" -> "JSONB"
               [] OTHER -> upperType

(***************************************************************************)
(* The cast-safety engine (type_cast.go).                                  *)
(***************************************************************************)
\* A variant that maps Float to REAL, a name the normalisation does not know.
GetPostgreSQLTypeReal(prismaType) ==
    CASE prismaType = "String" -> "TEXT"
      [] prismaType = "Int" -> "INTEGER"
      [] prismaType = "BigInt" -> "BIGINT"
      [] prismaType = "Float" -> "REAL"
      [] prismaType = "Decimal" -> "NUMERIC"
      [] prismaType = "Boolean" -> "BOOLEAN"
      [] prismaType = "DateTime" -> "TIMESTAMP"
      [] prismaType = "Json" -> "JSONB"
      [] OTHER -> prismaType

GetPostgreSQLType(prismaType) ==
    CASE prismaType = "String" -> "TEXT"
      [] prismaType = "Int" -> "INTEGER"
      [] prismaType = "BigInt" -> "BIGINT"
      [] prismaType = "Float" -> "DOUBLE PRECISION"
      [] prismaType = "Decimal" -> "NUMERIC"
      [] prismaType = "Boolean" -> "BOOLEAN"
      [] prismaType = "DateTime" -> "TIMESTAMP"
      [] prismaType = "Json" -> "JSONB"
      [] OTHER -> prismaType

CastResult(can, expr, risky, msg) ==
    [CanCast |-> can, CastExpression |-> expr, IsRisky |-> risky, WarningMessage |-> msg]

\* castingRules: source type -> target type -> result
castingRules ==
    [p \in { <<"BIGINT", "INTEGER">>, <<"BIGINT", "TEXT">>, <<"BIGINT", "DOUBLE PRECISION">>,
             <<"INTEGER", "BIGINT">>, <<"INTEGER", "TEXT">>, <<"INTEGER", "DOUBLE PRECISION">>,
             <<"INTEGER", "BOOLEAN">>,
             <<"TEXT", "INTEGER">>, <<"TEXT", "BIGINT">>, <<"TEXT", "DOUBLE PRECISION">>,
             <<"TEXT", "BOOLEAN">>, <<"TEXT", "TIMESTAMP">>, <<"TEXT", "JSONB">>,
             <<"DOUBLE PRECISION", "INTEGER">>, <<"DOUBLE PRECISION", "BIGINT">>,
             <<"DOUBLE PRECISION", "TEXT">>,
             <<"BOOLEAN", "TEXT">>, <<"BOOLEAN", "INTEGER">>,
             <<"TIMESTAMP", "TEXT">>, <<"JSONB", "TEXT">> } |->
       CASE p = <<"BIGINT", "INTEGER">> ->
              CastResult(TRUE, "::INTEGER", TRUE,
                  "Converting BIGINT to INTEGER may fail if values exceed INTEGER range"
                  \o " (-2,147,483,648 to 2,147,483,647)")
         [] p = <<"INTEGER", "BOOLEAN">> ->
              CastResult(TRUE, "::BOOLEAN", FALSE,
                  "Converting INTEGER to BOOLEAN: 0 = false, any other value = true")
         [] p = <<"BOOLEAN", "INTEGER">> ->
              CastResult(TRUE, "CASE WHEN %s THEN 1 ELSE 0 END", FALSE,
                  "Converting BOOLEAN to INTEGER: true = 1, false = 0")
         [] p[1] = "TEXT" ->
              CastResult(TRUE, "::" \o p[2], TRUE,
                  "Converting TEXT to " \o p[2] \o " may fail if text "
                  \o (CASE p[2] = "BOOLEAN" -> "is not 't', 'f', 'true', 'false', '1', or '0'"
                        [] p[2] = "TIMESTAMP" -> "is not in valid timestamp format"
                        [] p[2] = "JSONB" -> "is not valid JSON"
                        [] OTHER -> "contains non-numeric values"))
         [] p[1] = "DOUBLE PRECISION" /\ p[2] \in {"INTEGER", "BIGINT"} ->
              CastResult(TRUE, "::" \o p[2], TRUE,
                  "Converting DOUBLE PRECISION to " \o p[2] \o " will truncate decimal places")
         [] OTHER -> CastResult(TRUE, "::" \o p[2], FALSE, "")]

\* A variant without the same-type shortcut: every pair goes to the rule table.
CanCastTypeByRulesOnly(sourceType, targetType) ==
    LET sourcePG == GetPostgreSQLType(sourceType)
        targetPG == GetPostgreSQLType(targetType)
    IN  IF <<sourcePG, targetPG>> \in DOMAIN castingRules
          THEN castingRules[<<sourcePG, targetPG>>]
        ELSE CastResult(FALSE, "", FALSE,
                 "No automatic casting available from " \o sourcePG \o " to " \o targetPG
                 \o ". Manual SQL migration required.")

\* A variant that lets every unlisted pair through as a plain cast.
CanCastTypeUnchecked(sourceType, targetType) ==
    LET sourcePG == GetPostgreSQLType(sourceType)
        targetPG == GetPostgreSQLType(targetType)
    IN  IF sourcePG = targetPG THEN CastResult(TRUE, "", FALSE, "")
        ELSE IF <<sourcePG, targetPG>> \in DOMAIN castingRules
          THEN castingRules[<<sourcePG, targetPG>>]
        ELSE CastResult(TRUE, "::" \o targetPG, FALSE, "")

CanCastType(sourceType, targetType) ==
    LET sourcePG == GetPostgreSQLType(sourceType)
        targetPG == GetPostgreSQLType(targetType)
    IN  IF sourcePG = targetPG THEN CastResult(TRUE, "", FALSE, "")
        ELSE IF <<sourcePG, targetPG>> \in DOMAIN castingRules
          THEN castingRules[<<sourcePG, targetPG>>]
        ELSE CastResult(FALSE, "", FALSE,
                 "No automatic casting available from " \o sourcePG \o " to " \o targetPG
                 \o ". Manual SQL migration required.")

(***************************************************************************)
(* generate.go: column types, defaults, statements.                        *)
(***************************************************************************)
\* The loop over attributes of goTypeToSQLType: VarChar and Text only.
RECURSIVE DbAttrGoType(_)
DbAttrGoType(attrs) ==
    IF attrs = <<>> THEN ""
    ELSE LET attr == Head(attrs)
             dbType == DbType(attr.Name)
         IN  IF IsDbAttr(attr.Name) /\ dbType = "VarChar" /\ Len(attr.Args) > 0
               THEN "VARCHAR(" \o attr.Args[1] \o ")"
             ELSE IF IsDbAttr(attr.Name) /\ dbType = "Text"
               THEN "TEXT"
             ELSE DbAttrGoType(Tail(attrs))

goTypeToSQLType(t, isAutoIncrement, attributes) ==
    LET byAttr == DbAttrGoType(attributes)
    IN  IF byAttr # "" THEN byAttr
        ELSE CASE t = "Int" -> IF isAutoIncrement THEN "SERIAL" ELSE "INTEGER"
               [] t = "BigInt" -> "BIGINT"
               [] t = "String" -> "TEXT"
               [] t = "DateTime" -> "TIMESTAMP"
               [] t = "Boolean" -> "BOOLEAN"
               [] t = "Float" -> "FLOAT"
               [] OTHER -> t

(***************************************************************************)
(* Lines of SQL text.                                                      *)
(***************************************************************************)
UpMarker   == [k |-> "up"]       \* -- +goose Up
DownMarker == [k |-> "down"]     \* -- +goose Down
BeginLine  == [k |-> "begin"]    \* -- +goose StatementBegin
EndLine    == [k |-> "end"]      \* -- +goose StatementEnd
WarningLine(text) == [k |-> "warning", text |-> text]   \* -- WARNING: <text>
Comment(text)     == [k |-> "comment", text |-> text]   \* -- <text>

\* <name> SERIAL PRIMARY KEY   or   <name> <type> [DEFAULT <d>] [NOT NULL]
ColItem(name, type, default, notNull, serialPK) ==
    [k |-> "col", name |-> name, type |-> type, default |-> default,
     notNull |-> notNull, serialPK |-> serialPK]
\* PRIMARY KEY (<cols>)
PKItem(cols) == [k |-> "pk", cols |-> cols]
\* CONSTRAINT <name> FOREIGN KEY (<col>) REFERENCES <refTable>(<refCol>) [ON DELETE <a>]
FKItem(name, col, refTable, refCol, onDelete) ==
    [k |-> "fk", name |-> name, col |-> col, refTable |-> refTable, refCol |-> refCol,
     onDelete |-> onDelete]

CreateType(name, values)      == [k |-> "createType", name |-> name, values |-> values]
CreateTable(table, items)     == [k |-> "createTable", table |-> table, items |-> items]
CreateUniqueIndex(n, t, cols) == [k |-> "createUniqueIndex", name |-> n, table |-> t, cols |-> cols]
CreateIndex(n, t, cols)       == [k |-> "createIndex", name |-> n, table |-> t, cols |-> cols]
AddColumn(table, item)        == [k |-> "addColumn", table |-> table, item |-> item]
DropColumn(table, column, ifExists) ==
    [k |-> "dropColumn", table |-> table, column |-> column, ifExists |-> ifExists]
\* ALTER TABLE t ALTER COLUMN c TYPE <type> [USING <using>]; using = "" when absent
AlterType(table, column, type, using) ==
    [k |-> "alterType", table |-> table, column |-> column, type |-> type, using |-> using]
SetNotNull(table, column)     == [k |-> "setNotNull", table |-> table, column |-> column]
DropNotNull(table, column)    == [k |-> "dropNotNull", table |-> table, column |-> column]
DropTable(table, ifExists)    == [k |-> "dropTable", table |-> table, ifExists |-> ifExists]
DropType(name, ifExists)      == [k |-> "dropType", name |-> name, ifExists |-> ifExists]

IsSQL(line) == line.k \notin {"up", "down", "begin", "end", "warning", "comment"}

(***************************************************************************)
(* generate.go: helpers.                                                   *)
(***************************************************************************)
\* A variant that leaves the statement block open.
wrapWithoutEnd(sql) == <<BeginLine>> \o sql

wrapGooseStatement(sql) == <<BeginLine>> \o sql \o <<EndLine>>

wrapGooseStatementWithWarning(sql, warning) ==
    <<BeginLine, WarningLine(warning)>> \o sql \o <<EndLine>>

\* strings.Trim(val, "\""), on the strings of the model
TrimQuotes(s) ==
    CASE s = "\"users\"" -> "users"
      [] s = "\"posts\"" -> "posts"
      [] s = "\"products\"" -> "products"
      [] s = "\"author_id\"" -> "author_id"
      [] s = "\"guest\"" -> "guest"
      [] OTHER -> s

parseDefaultValue(val, typ) ==
    LET v == TrimQuotes(val)
    IN  CASE typ = "String" -> "'" \o v \o "'"
          [] typ = "DateTime" -> IF v = "now()" THEN "CURRENT_TIMESTAMP" ELSE v
          [] typ = "Boolean" -> IF v = "true" THEN "TRUE" ELSE "FALSE"
          [] OTHER -> IF v = "autoincrement()" THEN "" ELSE v

\* The switch over f.Attributes shared by the column builders.
isPrimaryOf(f) == HasAttr(f, "id")
isUniqueOf(f)  == HasAttr(f, "unique")
isAutoIncrementOf(f) ==
    \E i \in 1..Len(f.Attributes) :
        /\ f.Attributes[i].Name = "default"
        /\ Len(f.Attributes[i].Args) > 0
        /\ f.Attributes[i].Args[1] = "autoincrement()"
        /\ f.Type = "Int"

RECURSIVE defaultValFrom(_, _, _)
defaultValFrom(attrs, typ, acc) ==
    IF attrs = <<>> THEN acc
    ELSE LET a == Head(attrs)
         IN  IF a.Name = "default" /\ Len(a.Args) > 0
                  /\ ~(a.Args[1] = "autoincrement()" /\ typ = "Int")
               THEN defaultValFrom(Tail(attrs), typ, parseDefaultValue(a.Args[1], typ))
             ELSE defaultValFrom(Tail(attrs), typ, acc)

defaultValOf(f) == defaultValFrom(f.Attributes, f.Type, "")

\* var col string ... : the column definition of one field
columnDef(f, serialAllowed) ==
    IF isPrimaryOf(f) /\ isAutoIncrementOf(f) /\ serialAllowed
      THEN ColItem(f.ColumnName, "SERIAL", "", FALSE, TRUE)
    ELSE ColItem(f.ColumnName, goTypeToSQLType(f.Type, isAutoIncrementOf(f), f.Attributes),
                 defaultValOf(f), ~f.IsOptional, FALSE)

generateEnumSQL(e) == <<CreateType(e.Name, e.Values)>>

\* array fields and fields with @relation have no column
IsMaterialized(f) == ~f.IsArray /\ ~HasAttr(f, "relation")

\* strings.Trim(a, "[] \"'"), on the strings of the model
TrimIndexArg(a) ==
    CASE a = "[authorId]" -> "authorId"
      [] a = "[title" -> "title"
      [] a = "authorId]" -> "authorId"
      [] a = "[id" -> "id"
      [] a = "name]" -> "name"
      [] a = "[name]" -> "name"
      [] a = "[]" -> ""
      [] OTHER -> a

columnsNamed(fields, s) ==
    LET hit == SelectSeq(fields, LAMBDA f : f.Name = s)
    IN  [i \in 1..Len(hit) |-> hit[i].ColumnName]

RECURSIVE parseIndexFields(_, _)
parseIndexFields(args, fields) ==
    IF args = <<>> THEN <<>>
    ELSE LET s == TrimIndexArg(Head(args))
         IN  (IF s = "" THEN <<>> ELSE columnsNamed(fields, s))
             \o parseIndexFields(Tail(args), fields)

\* strings.Join(cols, "_")
RECURSIVE JoinUnderscore(_)
JoinUnderscore(cols) ==
    IF cols = <<>> THEN ""
    ELSE IF Len(cols) = 1 THEN cols[1]
    ELSE cols[1] \o "_" \o JoinUnderscore(Tail(cols))

\* strings.HasPrefix(relationArg, "fields:") etc., on the strings of the model
RelArgKind(arg) ==
    CASE arg \in {"fields:[authorId]", "fields:"} -> "fields"
      [] arg \in {"references:[id]", "references:"} -> "references"
      [] arg \in {"onDelete:Cascade", "onDelete:SetNull"} -> "onDelete"
      [] OTHER -> "other"

\* strings.Index(arg, "[") != -1 && strings.Index(arg, "]") != -1
HasBrackets(arg) == arg \in {"fields:[authorId]", "references:[id]"}
\* strings.TrimSpace(arg[start+1 : end])
BracketInner(arg) ==
    CASE arg = "fields:[authorId]" -> "authorId"
      [] arg = "references:[id]" -> "id"
      [] OTHER -> ""
\* strings.TrimSpace(strings.Split(arg, ":")[1])
AfterColon(arg) ==
    CASE arg = "onDelete:Cascade" -> "Cascade"
      [] arg = "onDelete:SetNull" -> "SetNull"
      [] OTHER -> ""

\* strings.HasSuffix(s, "s"), on the strings of the model
HasSuffixS(s) == s \in {"users", "posts"}

NoField == [Name |-> "", none |-> TRUE]

firstFieldNamed(fields, name) ==
    LET hit == SelectSeq(fields, LAMBDA f : f.Name = name)
    IN  IF hit = <<>> THEN NoField ELSE hit[1]

\* for i, relationArg := range attr.Args { ... }: st = [col, onDelete, fk]
RECURSIVE relationArgs(_, _, _)
relationArgs(args, fields, st) ==
    IF args = <<>> THEN st
    ELSE LET arg == Head(args)
             kind == RelArgKind(arg)
             found == firstFieldNamed(fields, BracketInner(arg))
             st2 ==
               CASE kind = "fields" /\ HasBrackets(arg) /\ found # NoField ->
                      [st EXCEPT !.fk = found]
                 [] kind = "references" /\ HasBrackets(arg) ->
                      [st EXCEPT !.col = BracketInner(arg)]
                 [] kind = "onDelete" -> [st EXCEPT !.onDelete = AfterColon(arg)]
                 [] OTHER -> st
         IN  relationArgs(Tail(args), fields, st2)

\* the foreign key clause of one relation field of model m, <<>> when none
foreignKeyOf(m, f) ==
    LET rel == SelectSeq(f.Attributes, LAMBDA a : a.Name = "relation")
        lower == ToLower(f.Type)
        referencedTable == IF HasSuffixS(lower) THEN lower ELSE lower \o "s"
        st == relationArgs(rel[1].Args, m.Fields,
                           [col |-> "id", onDelete |-> "", fk |-> NoField])
    IN  IF rel = <<>> \/ st.fk = NoField THEN <<>>
        ELSE <<FKItem("fk_" \o m.TableName \o "_" \o st.fk.ColumnName, st.fk.ColumnName,
                      referencedTable, st.col,
                      IF st.onDelete # "" THEN ToUpper(st.onDelete) ELSE "")>>

\* CREATE UNIQUE INDEX statements of the @unique fields among fs
uniqueFieldIndexes(m, fs) ==
    LET us == SelectSeq(fs, isUniqueOf)
    IN  [i \in 1..Len(us) |->
            CreateUniqueIndex("idx_uniq_" \o m.TableName \o "_" \o us[i].ColumnName,
                              m.TableName, <<us[i].ColumnName>>)]

\* the @@unique / @@index attributes of a model
tableIndexes(m, which) ==
    LET as == SelectSeq(m.Attributes, LAMBDA a : a.Name = which /\ Len(a.Args) > 0)
    IN  [i \in 1..Len(as) |->
            LET idxCols == parseIndexFields(as[i].Args, m.Fields)
            IN  IF which = "unique"
                  THEN CreateUniqueIndex("idx_uniq_" \o m.TableName \o "_" \o JoinUnderscore(idxCols),
                                         m.TableName, idxCols)
                ELSE CreateIndex("idx_" \o m.TableName \o "_" \o JoinUnderscore(idxCols),
                                 m.TableName, idxCols)]

\* strings.Trim(fieldName, "[] \"'") and the lookup of the composite key's columns
RECURSIVE compositePKColumns(_, _)
compositePKColumns(names, fields) ==
    IF names = <<>> THEN <<>>
    ELSE LET f == firstFieldNamed(fields, TrimIndexArg(Head(names)))
         IN  (IF f = NoField THEN <<>> ELSE <<f.ColumnName>>)
             \o compositePKColumns(Tail(names), fields)

\* The body of "for _, m := range diff.ModelsAdded" in GenerateMigrationSQL.
addedTableSQL(m) ==
    LET idAttrs == SelectSeq(m.Attributes, LAMBDA a : a.Name = "id")
        compositePK == IF idAttrs = <<>> THEN <<>> ELSE idAttrs[1].Args
        mat == SelectSeq(m.Fields, IsMaterialized)
        cols == [i \in 1..Len(mat) |-> columnDef(mat[i], Len(compositePK) = 0)]
        pks == SelectSeq(mat, LAMBDA f : isPrimaryOf(f) /\ ~isAutoIncrementOf(f))
        pkCols == [i \in 1..Len(pks) |-> pks[i].ColumnName]
        foreignKeys == Flatten([i \in 1..Len(m.Fields) |-> foreignKeyOf(m, m.Fields[i])])
        compositePKCols == compositePKColumns(compositePK, m.Fields)
        pkItem == IF Len(compositePK) > 0
                    THEN (IF Len(compositePKCols) > 0 THEN <<PKItem(compositePKCols)>> ELSE <<>>)
                  ELSE IF Len(pkCols) > 0 THEN <<PKItem(pkCols)>>
                  ELSE <<>>
        uniqueIndexes == uniqueFieldIndexes(m, mat) \o tableIndexes(m, "unique")
        indexes == tableIndexes(m, "index")
    IN  wrapGooseStatement(<<CreateTable(m.TableName, cols \o pkItem \o foreignKeys)>>)
        \o Flatten([i \in 1..Len(uniqueIndexes) |-> wrapGooseStatement(<<uniqueIndexes[i]>>)])
        \o Flatten([i \in 1..Len(indexes) |-> wrapGooseStatement(<<indexes[i]>>)])

\* The body of "for _, m := range diff.ModelsRemoved" in GenerateDownMigrationSQL:
\* every field gets a column, there is no composite key and no foreign key.
removedTableSQL(m) ==
    LET cols == [i \in 1..Len(m.Fields) |-> columnDef(m.Fields[i], TRUE)]
        pks == SelectSeq(m.Fields, LAMBDA f : isPrimaryOf(f) /\ ~isAutoIncrementOf(f))
        pkCols == [i \in 1..Len(pks) |-> pks[i].ColumnName]
        pkItem == IF Len(pkCols) > 0 THEN <<PKItem(pkCols)>> ELSE <<>>
        uniqueIndexes == uniqueFieldIndexes(m, m.Fields) \o tableIndexes(m, "unique")
        indexes == tableIndexes(m, "index")
    IN  wrapGooseStatement(<<CreateTable(m.TableName, cols \o pkItem)>>)
        \o Flatten([i \in 1..Len(uniqueIndexes) |-> wrapGooseStatement(<<uniqueIndexes[i]>>)])
        \o Flatten([i \in 1..Len(indexes) |-> wrapGooseStatement(<<indexes[i]>>)])

(***************************************************************************)
(* diff.go: FieldChange, SchemaDiff.                                       *)
(***************************************************************************)
FieldChange(model, field, current, type) ==
    [ModelName |-> model, Field |-> field, CurrentField |-> current, Type |-> type]

SchemaDiff(ma, mr, ea, er, fa, fr, fm) ==
    [ModelsAdded |-> ma, ModelsRemoved |-> mr, EnumsAdded |-> ea, EnumsRemoved |-> er,
     FieldsAdded |-> fa, FieldsRemoved |-> fr, FieldsModified |-> fm]

(***************************************************************************)
(* generate.go: column statements.                                         *)
(***************************************************************************)
\* A variant that re-adds every column as NOT NULL.
generateAddColumnNotNull(fieldChange) ==
    LET f == fieldChange.Field
    IN  IF ~IsMaterialized(f) THEN <<>>
        ELSE <<AddColumn(fieldChange.ModelName,
                         [columnDef(f, TRUE) EXCEPT !.notNull = TRUE])>>

generateAddColumnSQL(fieldChange) ==
    LET f == fieldChange.Field
    IN  IF ~IsMaterialized(f) THEN <<>>
        ELSE <<AddColumn(fieldChange.ModelName, columnDef(f, TRUE))>>
             \o (IF isUniqueOf(f)
                   THEN <<CreateUniqueIndex("idx_uniq_" \o fieldChange.ModelName \o "_"
                                            \o f.ColumnName,
                                            fieldChange.ModelName, <<f.ColumnName>>)>>
                 ELSE <<>>)

generateDropColumnSQL(fieldChange) ==
    LET f == fieldChange.Field
    IN  IF ~IsMaterialized(f) THEN <<>>
        ELSE <<DropColumn(fieldChange.ModelName, f.ColumnName, TRUE)>>

\* strings.Join(warnings, " | ")
RECURSIVE JoinBar(_)
JoinBar(ws) ==
    IF ws = <<>> THEN ""
    ELSE IF Len(ws) = 1 THEN ws[1]
    ELSE ws[1] \o " | " \o JoinBar(Tail(ws))

\* Returns [stmt |-> lines, warning |-> text].
generateModifyColumnSQLWithWarning(fieldChange) ==
    LET currentField == fieldChange.CurrentField
        targetField == fieldChange.Field
        t == fieldChange.ModelName
        c == targetField.ColumnName
        currentNormalizedType ==
            NormalizeTypeForComparison(currentField.Type, currentField.Attributes)
        targetNormalizedType ==
            NormalizeTypeForComparison(targetField.Type, targetField.Attributes)
        typeChanged == currentNormalizedType # targetNormalizedType
        newSQLType == goTypeToSQLType(targetField.Type, FALSE, targetField.Attributes)
        castResult == CanCastType(currentNormalizedType, targetNormalizedType)
        typeStmts ==
            IF ~typeChanged THEN <<>>
            ELSE IF castResult.CanCast
              THEN (IF castResult.CastExpression # ""
                      THEN <<AlterType(t, c, newSQLType, c \o castResult.CastExpression)>>
                    ELSE <<AlterType(t, c, newSQLType, "")>>)
            ELSE <<Comment("ERROR: " \o castResult.WarningMessage),
                   Comment("Manual migration required for " \o t \o "." \o c)>>
        typeWarnings ==
            IF ~typeChanged THEN <<>>
            ELSE IF castResult.CanCast
              THEN (IF castResult.IsRisky \/ castResult.WarningMessage # ""
                      THEN <<"RISKY CONVERSION: " \o t \o "." \o c \o " from "
                             \o currentNormalizedType \o " to " \o targetNormalizedType
                             \o " - " \o castResult.WarningMessage
                             \o ". This cannot be safely rolled back!">>
                    ELSE <<>>)
            ELSE <<"MANUAL INTERVENTION REQUIRED: " \o castResult.WarningMessage>>
        nullChanged == currentField.IsOptional # targetField.IsOptional
        nullStmts ==
            IF ~nullChanged THEN <<>>
            ELSE IF targetField.IsOptional THEN <<DropNotNull(t, c)>>
            ELSE <<SetNotNull(t, c)>>
        nullWarnings ==
            IF nullChanged /\ ~targetField.IsOptional
              THEN <<"RISKY: Making " \o t \o "." \o c
                     \o " NOT NULL - will fail if NULL values exist."
                     \o " Cannot be safely rolled back if data is modified!">>
            ELSE <<>>
        stmts == typeStmts \o nullStmts
        warnings == typeWarnings \o nullWarnings
    IN  IF ~IsMaterialized(targetField) THEN [stmt |-> <<>>, warning |-> ""]
        ELSE IF Len(stmts) = 0
          THEN [stmt |-> <<Comment("No changes detected for " \o t \o "." \o c)>>,
                warning |-> ""]
        ELSE [stmt |-> stmts, warning |-> JoinBar(warnings)]

generateReverseModifyColumnSQL(fieldChange) ==
    LET currentField == fieldChange.CurrentField
        targetField == fieldChange.Field
        t == fieldChange.ModelName
        c == targetField.ColumnName
        currentNormalizedType ==
            NormalizeTypeForComparison(currentField.Type, currentField.Attributes)
        targetNormalizedType ==
            NormalizeTypeForComparison(targetField.Type, targetField.Attributes)
        originalSQLType == goTypeToSQLType(currentField.Type, FALSE, currentField.Attributes)
        castResult == CanCastType(targetNormalizedType, currentNormalizedType)
        typeStmts ==
            IF currentNormalizedType = targetNormalizedType THEN <<>>
            ELSE IF castResult.CanCast /\ ~castResult.IsRisky
              THEN (IF castResult.CastExpression # ""
                      THEN <<AlterType(t, c, originalSQLType, c \o castResult.CastExpression)>>
                    ELSE <<AlterType(t, c, originalSQLType, "")>>)
            ELSE IF castResult.CanCast /\ castResult.IsRisky
              THEN <<WarningLine("Risky type reversal from " \o targetNormalizedType
                                 \o " to " \o currentNormalizedType),
                     Comment(castResult.WarningMessage),
                     AlterType(t, c, originalSQLType, c \o castResult.CastExpression)>>
            ELSE <<Comment("ERROR: Cannot automatically reverse type change for "
                           \o t \o "." \o c),
                   Comment("From " \o targetNormalizedType \o " back to "
                           \o currentNormalizedType \o ": " \o castResult.WarningMessage),
                   Comment("Manual intervention required")>>
        nullStmts ==
            IF currentField.IsOptional = targetField.IsOptional THEN <<>>
            ELSE IF currentField.IsOptional THEN <<DropNotNull(t, c)>>
            ELSE <<WarningLine("Setting NOT NULL may fail if NULL values exist"),
                   SetNotNull(t, c)>>
        stmts == typeStmts \o nullStmts
    IN  IF ~IsMaterialized(targetField) THEN <<>>
        ELSE IF Len(stmts) = 0
          THEN <<Comment("No reverse changes needed for " \o t \o "." \o c)>>
        ELSE stmts

(***************************************************************************)
(* generate.go: GenerateMigrationSQL and GenerateDownMigrationSQL.  The    *)
(* result is the text, as lines; the blank lines between statement blocks  *)
(* are not kept.                                                           *)
(***************************************************************************)
wrapIfAny(sql) == IF sql = <<>> THEN <<>> ELSE wrapGooseStatement(sql)

modifyBlock(fieldChange) ==
    LET r == generateModifyColumnSQLWithWarning(fieldChange)
    IN  IF r.stmt = <<>> THEN <<>>
        ELSE IF r.warning # "" THEN wrapGooseStatementWithWarning(r.stmt, r.warning)
        ELSE wrapGooseStatement(r.stmt)

dropColumnBlock(fieldChange) ==
    LET stmt == generateDropColumnSQL(fieldChange)
    IN  IF stmt = <<>> THEN <<>>
        ELSE wrapGooseStatementWithWarning(stmt,
                 "IRREVERSIBLE: Dropping column " \o fieldChange.ModelName \o "."
                 \o fieldChange.Field.ColumnName
                 \o " - all data in this column will be lost!")

dropTableBlock(m) ==
    wrapGooseStatementWithWarning(<<DropTable(m.TableName, TRUE)>>,
        "IRREVERSIBLE: Dropping table " \o m.TableName \o " - all data will be lost!")

\* for _, x := range xs { stmts = append(stmts, block(x)...) }
EachBlock(xs, block(_)) == Flatten([i \in 1..Len(xs) |-> block(xs[i])])

\* A variant that creates the tables before the enums they may use.
GenerateTablesBeforeEnums(diff) ==
    EachBlock(diff.ModelsAdded, addedTableSQL)
    \o EachBlock(diff.EnumsAdded, LAMBDA e : wrapGooseStatement(generateEnumSQL(e)))
    \o EachBlock(diff.FieldsAdded, LAMBDA fc : wrapIfAny(generateAddColumnSQL(fc)))
    \o EachBlock(diff.FieldsRemoved, dropColumnBlock)
    \o EachBlock(diff.FieldsModified, modifyBlock)
    \o EachBlock(diff.ModelsRemoved, dropTableBlock)

\* A variant that drops the added enums before the added tables.
GenerateDownEnumsBeforeTables(diff) ==
    EachBlock(diff.EnumsAdded, LAMBDA e : wrapGooseStatement(<<DropType(e.Name, TRUE)>>))
    \o EachBlock(diff.ModelsAdded, LAMBDA m : wrapGooseStatement(<<DropTable(m.TableName, TRUE)>>))
    \o EachBlock(diff.FieldsAdded, LAMBDA fc : wrapIfAny(generateDropColumnSQL(fc)))
    \o EachBlock(diff.FieldsRemoved, LAMBDA fc : wrapIfAny(generateAddColumnSQL(fc)))
    \o EachBlock(diff.FieldsModified, LAMBDA fc : wrapIfAny(generateReverseModifyColumnSQL(fc)))
    \o EachBlock(diff.EnumsRemoved, LAMBDA e : wrapGooseStatement(generateEnumSQL(e)))
    \o EachBlock(diff.ModelsRemoved, removedTableSQL)

GenerateMigrationSQL(diff) ==
    EachBlock(diff.EnumsAdded, LAMBDA e : wrapGooseStatement(generateEnumSQL(e)))
    \o EachBlock(diff.FieldsAdded, LAMBDA fc : wrapIfAny(generateAddColumnSQL(fc)))
    \o EachBlock(diff.FieldsRemoved, dropColumnBlock)
    \o EachBlock(diff.FieldsModified, modifyBlock)
    \o EachBlock(diff.ModelsAdded, addedTableSQL)
    \o EachBlock(diff.ModelsRemoved, dropTableBlock)

GenerateDownMigrationSQL(diff) ==
    EachBlock(diff.ModelsAdded, LAMBDA m : wrapGooseStatement(<<DropTable(m.TableName, TRUE)>>))
    \o EachBlock(diff.EnumsAdded, LAMBDA e : wrapGooseStatement(<<DropType(e.Name, TRUE)>>))
    \o EachBlock(diff.FieldsAdded, LAMBDA fc : wrapIfAny(generateDropColumnSQL(fc)))
    \o EachBlock(diff.FieldsRemoved, LAMBDA fc : wrapIfAny(generateAddColumnSQL(fc)))
    \o EachBlock(diff.FieldsModified, LAMBDA fc : wrapIfAny(generateReverseModifyColumnSQL(fc)))
    \o EachBlock(diff.EnumsRemoved, LAMBDA e : wrapGooseStatement(generateEnumSQL(e)))
    \o EachBlock(diff.ModelsRemoved, removedTableSQL)

(***************************************************************************)
(* sql_parser.go: parsing one statement.  A parsed statement is a record   *)
(* with field op; NoStatement is the nil the parser returns for what it    *)
(* does not recognise.                                                     *)
(***************************************************************************)
NoStatement == [op |-> "nil"]

\* strings.Fields(s)[0], on the type texts of the model
FirstWord(s) ==
    CASE s = "DOUBLE PRECISION" -> "DOUBLE"
      [] OTHER -> s

\* strings.HasPrefix(part, "UNIQUE" | "CONSTRAINT" | "CHECK" | ...) for a column
\* definition, which starts with the column's name (here in upper case)
NameHasConstraintPrefix(upperName) == upperName \in {"UNIQUE_CODE", "CHECKSUM"}

isConstraint(item) ==
    \/ item.k \in {"pk", "fk"}
    \/ item.k = "col" /\ NameHasConstraintPrefix(ToUpper(item.name))

\* extractTypeFromParts: the first word after the name, in lower case
extractTypeFromParts(item) == ToLower(ToUpper(FirstWord(item.type)))

\* ColumnDefinition{Name, Type, NotNull, PrimaryKey}
parseColumnDefinition(item) ==
    [Name |-> ToLower(ToUpper(item.name)),
     Type |-> extractTypeFromParts(item),
     NotNull |-> item.notNull,
     PrimaryKey |-> item.serialPK]

parseColumnDefinitions(items) ==
    LET kept == SelectSeq(items, LAMBDA it : ~isConstraint(it))
    IN  [i \in 1..Len(kept) |-> parseColumnDefinition(kept[i])]

parseCreateTable(stmt) ==
    [op |-> "createTable", TableName |-> ToLower(ToUpper(stmt.table)),
     Columns |-> parseColumnDefinitions(stmt.items)]

\* the text that follows TYPE, up to the end of the statement
TextAfterTYPE(stmt) ==
    IF stmt.using = "" THEN stmt.type ELSE stmt.type \o " USING " \o stmt.using

parseAlterColumnType(stmt) ==
    [op |-> "alterColumnType", ColumnName |-> ToLower(ToUpper(stmt.column)),
     NewType |-> ToLower(ToUpper(TextAfterTYPE(stmt)))]

parseAlterTable(stmt) ==
    LET tableName == ToLower(ToUpper(stmt.table))
    IN  CASE stmt.k = "addColumn" ->
               [op |-> "alterTable", TableName |-> tableName,
                Operation |-> [op |-> "addColumn", Column |-> parseColumnDefinition(stmt.item)]]
          [] stmt.k = "dropColumn" ->
               [op |-> "alterTable", TableName |-> tableName,
                Operation |-> [op |-> "dropColumn",
                               ColumnName |-> ToLower(ToUpper(stmt.column))]]
          [] stmt.k = "alterType" ->
               [op |-> "alterTable", TableName |-> tableName,
                Operation |-> parseAlterColumnType(stmt)]
          [] OTHER -> NoStatement     \* SET / DROP NOT NULL: no operation

ParseSQLStatement(stmt) ==
    IF stmt.k = "createTable" THEN parseCreateTable(stmt)
    ELSE IF stmt.k \in {"addColumn", "dropColumn", "alterType", "setNotNull", "dropNotNull"}
      THEN parseAlterTable(stmt)
    ELSE NoStatement    \* CREATE TYPE, DROP TABLE, DROP TYPE, CREATE INDEX, ...

(***************************************************************************)
(* sql_parser.go: applying a parsed statement to the schema.               *)
(***************************************************************************)
FieldOfColumn(col) ==
    Field(col.Name, col.Name, col.Type, <<>>, ~col.NotNull /\ ~col.PrimaryKey, FALSE)

CreateTableApply(c, schema) ==
    [schema EXCEPT !.Models =
        Append(@, Model(c.TableName, c.TableName,
                        [i \in 1..Len(c.Columns) |-> FieldOfColumn(c.Columns[i])], <<>>))]

AddColumnApply(a, model) ==
    [model EXCEPT !.Fields = Append(@, FieldOfColumn(a.Column))]

DropColumnApply(d, model) ==
    [model EXCEPT !.Fields = SelectSeq(@, LAMBDA f : f.ColumnName # d.ColumnName)]

AlterColumnTypeApply(a, model) ==
    LET hits == {i \in 1..Len(model.Fields) : model.Fields[i].ColumnName = a.ColumnName}
    IN  IF hits = {} THEN model
        ELSE LET first == CHOOSE i \in hits : \A j \in hits : i <= j
             IN  [model EXCEPT !.Fields[first].Type = a.NewType]

OperationApply(o, model) ==
    CASE o.op = "addColumn" -> AddColumnApply(o, model)
      [] o.op = "dropColumn" -> DropColumnApply(o, model)
      [] o.op = "alterColumnType" -> AlterColumnTypeApply(o, model)

AlterTableApply(a, schema) ==
    LET hits == {i \in 1..Len(schema.Models) : schema.Models[i].TableName = a.TableName}
    IN  IF hits = {} THEN schema
        ELSE LET first == CHOOSE i \in hits : \A j \in hits : i <= j
             IN  [schema EXCEPT !.Models[first] = OperationApply(a.Operation, @)]

StatementApply(st, schema) ==
    CASE st.op = "createTable" -> CreateTableApply(st, schema)
      [] st.op = "alterTable" -> AlterTableApply(st, schema)
      [] OTHER -> schema

(***************************************************************************)
(* sql_parser.go: files and the directory.                                 *)
(***************************************************************************)
\* strings.Index(sql, marker): the first line that is the marker, 0 when none
IndexOfLine(lines, marker) ==
    IF \E i \in 1..Len(lines) : lines[i] = marker
      THEN CHOOSE i \in 1..Len(lines) :
               lines[i] = marker /\ \A j \in 1..(i - 1) : lines[j] # marker
    ELSE 0

\* the part of a file applyMigrationFile hands to MinifySQL
UpSectionOf(lines) ==
    LET upStart == IndexOfLine(lines, UpMarker)
        downStart == IndexOfLine(lines, DownMarker)
    IN  IF upStart > 0
          THEN (IF downStart > upStart THEN SubSeq(lines, upStart, downStart - 1)
                ELSE SubSeq(lines, upStart, Len(lines)))
        ELSE lines

\* removeComments, normalizeWhitespace, split on ";": the statements left
MinifySQL(lines) == SelectSeq(lines, IsSQL)

RECURSIVE applyStatements(_, _)
applyStatements(stmts, schema) ==
    IF stmts = <<>> THEN schema
    ELSE applyStatements(Tail(stmts), StatementApply(ParseSQLStatement(Head(stmts)), schema))

applyMigrationFile(schema, lines) == applyStatements(MinifySQL(UpSectionOf(lines)), schema)

\* A file name is <timestamp>_<name>.sql; the timestamp has a fixed width.  It is
\* kept as the sequence of its characters that differ from file to file: the
\* timestamp's digit, then the letters of the name.
FileName(ts, name) == <<ts>> \o name

\* a < b as Go compares strings
RECURSIVE LexLess(_, _)
LexLess(a, b) ==
    IF b = <<>> THEN FALSE
    ELSE IF a = <<>> THEN TRUE
    ELSE IF Head(a) # Head(b) THEN Head(a) < Head(b)
    ELSE LexLess(Tail(a), Tail(b))

\* sort.Strings(migrationFiles)
SortStrings(names) ==
    CHOOSE p \in PermsOf(names) : \A i \in 1..(Cardinality(names) - 1) : LexLess(p[i], p[i + 1])

RECURSIVE applyFiles(_, _, _)
applyFiles(dir, order, schema) ==
    IF order = <<>> THEN schema
    ELSE applyFiles(dir, Tail(order), applyMigrationFile(schema, dir[Head(order)]))

ApplyMigrationsFromDir(dir) ==
    LET migrationFiles == SortStrings(DOMAIN dir)
    IN  applyFiles(dir, [i \in 1..Len(migrationFiles) |-> migrationFiles[i]], EmptySchema)

\* source.go, MigrationsFolderSource.LoadSchema
ParseMigrationsToSchema(dir) == ApplyMigrationsFromDir(dir)

(***************************************************************************)
(* diff.go: fieldsEqual and DiffSchemas.  A Go map built from a slice      *)
(* keeps, for each key, the last element with that key, and is ranged over *)
(* in any order: DiffSchemas is the set of the diffs the orders can give.  *)
(***************************************************************************)
\* A variant that compares the type strings as written.
fieldsEqualAsWritten(current, target) ==
    /\ current.Type = target.Type
    /\ current.IsOptional = target.IsOptional
    /\ current.IsArray = target.IsArray

\* A variant that compares the SQL types alone.
fieldsEqualByType(current, target) ==
    GetSQLTypeForField(current) = GetSQLTypeForField(target)

fieldsEqual(current, target) ==
    /\ GetSQLTypeForField(current) = GetSQLTypeForField(target)
    /\ current.IsOptional = target.IsOptional
    /\ current.IsArray = target.IsArray

\* m := map[string]*T{}; for _, x := range xs { m[key(x)] = x }
MapBy(xs, key(_)) ==
    [kk \in {key(xs[i]) : i \in 1..Len(xs)} |->
        xs[CHOOSE i \in 1..Len(xs) :
              key(xs[i]) = kk /\ \A j \in (i + 1)..Len(xs) : key(xs[j]) # kk]]

TableNameOf(m)  == m.TableName
ColumnNameOf(f) == f.ColumnName
NameOf(e)       == e.Name

\* the sequences a loop nest gives: tables in the order ord, and for each table
\* its changes G(t) in any order
NestedOrders(ord, tables, G(_)) ==
    LET choices == {f \in [tables -> UNION {PermsOf(G(t)) : t \in tables}] :
                        \A t \in tables : f[t] \in PermsOf(G(t))}
    IN  {Flatten([i \in 1..Len(ord) |-> f[ord[i]]]) : f \in choices}

\* lines 42-46: the models of the target whose table the current schema lacks
modelsAddedOf(currentModelMap, targetModelMap) ==
    {targetModelMap[t] : t \in DOMAIN targetModelMap \ DOMAIN currentModelMap}

\* A variant that never reports a removed model.
noModelsRemoved(currentModelMap, targetModelMap) == {}

\* lines 49-53: the models of the current schema whose table the target lacks
modelsRemovedOf(currentModelMap, targetModelMap) ==
    {currentModelMap[t] : t \in DOMAIN currentModelMap \ DOMAIN targetModelMap}

DiffSchemas(current, target) ==
    LET currentModelMap == MapBy(current.Models, TableNameOf)
        targetModelMap == MapBy(target.Models, TableNameOf)
        currentEnumMap == MapBy(current.Enums, NameOf)
        targetEnumMap == MapBy(target.Enums, NameOf)
        added == modelsAddedOf(currentModelMap, targetModelMap)
        removed == modelsRemovedOf(currentModelMap, targetModelMap)
        both == DOMAIN targetModelMap \cap DOMAIN currentModelMap
        cf(t) == MapBy(currentModelMap[t].Fields, ColumnNameOf)
        tf(t) == MapBy(targetModelMap[t].Fields, ColumnNameOf)
        fa(t) == {FieldChange(t, tf(t)[c], NoField, "added") :
                      c \in DOMAIN tf(t) \ DOMAIN cf(t)}
        fr(t) == {FieldChange(t, cf(t)[c], NoField, "removed") :
                      c \in DOMAIN cf(t) \ DOMAIN tf(t)}
        fm(t) == {FieldChange(t, tf(t)[c], cf(t)[c], "modified") :
                      c \in {x \in DOMAIN tf(t) \cap DOMAIN cf(t) :
                                ~fieldsEqual(cf(t)[x], tf(t)[x])}}
        enumsAdded == {targetEnumMap[n] : n \in DOMAIN targetEnumMap \ DOMAIN currentEnumMap}
        enumsRemoved == {currentEnumMap[n] : n \in DOMAIN currentEnumMap \ DOMAIN targetEnumMap}
    IN  UNION { { SchemaDiff(ma, mr, ea, er, a, r, m) :
                    ma \in PermsOf(added), mr \in PermsOf(removed),
                    ea \in PermsOf(enumsAdded), er \in PermsOf(enumsRemoved),
                    a \in NestedOrders(ord, both, fa),
                    r \in NestedOrders(ord, both, fr),
                    m \in NestedOrders(ord, both, fm) } : ord \in PermsOf(both) }

(***************************************************************************)
(* cmd/generate.go: analyzeRiskyOperations.                                *)
(***************************************************************************)
modifiedRisks(fc) ==
    LET currentField == fc.CurrentField
        targetField == fc.Field
        cur == NormalizeTypeForComparison(currentField.Type, currentField.Attributes)
        tgt == NormalizeTypeForComparison(targetField.Type, targetField.Attributes)
        forwardCastResult == CanCastType(cur, tgt)
        reverseCastResult == CanCastType(tgt, cur)
        head == "Field " \o fc.ModelName \o "." \o targetField.ColumnName \o ": "
        arrow == head \o cur \o " -> " \o tgt
    IN  (IF cur # tgt
           THEN (IF forwardCastResult.IsRisky
                   THEN <<arrow \o " (" \o forwardCastResult.WarningMessage \o ")">>
                 ELSE IF ~forwardCastResult.CanCast
                   THEN <<arrow \o " (Cannot be automatically cast - manual intervention required)">>
                 ELSE <<>>)
                \o
                (IF reverseCastResult.IsRisky
                   THEN <<arrow \o " (ROLLBACK RISK: " \o reverseCastResult.WarningMessage \o ")">>
                 ELSE IF ~reverseCastResult.CanCast
                   THEN <<arrow \o " (ROLLBACK IMPOSSIBLE: Cannot reverse this conversion)">>
                 ELSE <<>>)
         ELSE <<>>)
        \o
        (IF currentField.IsOptional /\ ~targetField.IsOptional
           THEN <<head \o "Making nullable field NOT NULL (may fail if NULL values exist)">>
         ELSE <<>>)

analyzeRiskyOperations(diff) ==
    EachBlock(diff.FieldsModified, modifiedRisks)
    \o [i \in 1..Len(diff.ModelsRemoved) |->
           "Table " \o diff.ModelsRemoved[i].TableName \o ": Being dropped (all data will be lost)"]
    \o [i \in 1..Len(diff.FieldsRemoved) |->
           "Field " \o diff.FieldsRemoved[i].ModelName \o "."
               \o diff.FieldsRemoved[i].Field.ColumnName
               \o ": Being removed (column data will be lost)"]
    \o [i \in 1..Len(diff.EnumsRemoved) |->
           "Enum " \o diff.EnumsRemoved[i].Name \o ": Being dropped (may affect dependent fields)"]

(***************************************************************************)
(* cmd/generate.go and cmd/empty.go: the commands.                         *)
(***************************************************************************)
\* values of the --name flag, as letters
Names == {<<1>>}

\* what the operator may type at the prompt
Responses == {"y", "Yes", " yes", "n", ""}

\* strings.TrimSpace, on the responses of the model
TrimSpace(s) == IF s = " yes" THEN "yes" ELSE s

\* "-- +goose Up\n" + up + "\n\n-- +goose Down\n" + down
MigrationText(up, down) == <<UpMarker>> \o up \o <<DownMarker>> \o down

\* the template of the empty command
EmptyTemplate ==
    <<UpMarker, BeginLine,
      Comment("Write your SQL here (e.g., CREATE INDEX, TRIGGER, FUNCTION, etc.)"), EndLine,
      DownMarker, BeginLine, Comment("Write the rollback SQL here"), EndLine>>

\* os.Create(filename) followed by f.WriteString(text)
WriteFile(dir, file, text) ==
    [f \in DOMAIN dir \cup {file} |-> IF f = file THEN text ELSE dir[f]]

\* No two commands write within the same second: a command creates its file
\* only under a timestamp no file carries yet.
CanCreate(file) == file \notin DOMAIN migrations

\* the record of the last run of the generate command
Run(initial, target, diff, result, response, file) ==
    [initial |-> initial, target |-> target, diff |-> diff, result |-> result,
     response |-> response, file |-> file]

NoRun == Run(FALSE, EmptySchema, SchemaDiff(<<>>, <<>>, <<>>, <<>>, <<>>, <<>>, <<>>),
             "none", "", <<>>)

\* the test of generate.go line 81
NoChangesDetected(diff) ==
    /\ Len(diff.ModelsAdded) = 0
    /\ Len(diff.EnumsAdded) = 0
    /\ Len(diff.FieldsAdded) = 0
    /\ Len(diff.FieldsRemoved) = 0
    /\ Len(diff.FieldsModified) = 0

\* lines 109-121 (and 40-53): generate both texts and write the file
WriteMigration(initial, target, diff, name, response) ==
    LET up == GenerateMigrationSQL(diff)
        down == GenerateDownMigrationSQL(diff)
        filename == FileName(now, name)
    IN  /\ CanCreate(filename)
        /\ migrations' = WriteFile(migrations, filename, MigrationText(up, down))
        /\ out' = Run(initial, target, diff, "created", response, filename)

GenerateCommand(name) ==
    /\ pc = "idle"
    /\ LET targetSchema == schemaFile
       IN  IF DOMAIN migrations = {}
             THEN /\ WriteMigration(TRUE, targetSchema,
                         SchemaDiff(targetSchema.Models, <<>>, targetSchema.Enums, <<>>,
                                    <<>>, <<>>, <<>>), name, "")
                  /\ shown' = <<>>
                  /\ UNCHANGED <<pc, pending>>
           ELSE \E diff \in DiffSchemas(ParseMigrationsToSchema(migrations), targetSchema) :
                  IF NoChangesDetected(diff)
                    THEN /\ out' = Run(FALSE, targetSchema, diff, "nochanges", "", <<>>)
                         /\ shown' = <<>>
                         /\ UNCHANGED <<migrations, pc, pending>>
                  ELSE LET risks == analyzeRiskyOperations(diff)
                       IN  IF Len(risks) > 0
                             THEN /\ pc' = "confirm"
                                  /\ pending' = <<[diff |-> diff, name |-> name,
                                                   target |-> targetSchema]>>
                                  /\ shown' = risks
                                  /\ out' = Run(FALSE, targetSchema, diff, "prompt", "", <<>>)
                                  /\ UNCHANGED migrations
                           ELSE /\ WriteMigration(FALSE, targetSchema, diff, name, "")
                                /\ shown' = <<>>
                                /\ UNCHANGED <<pc, pending>>
    /\ UNCHANGED <<schemaFile, now, pureVars>>

\* lines 95-108: the operator's answer arrives, or reading it fails
AnswerPrompt(response, readError) ==
    /\ pc = "confirm"
    /\ LET p == pending[1]
       IN  IF readError
             THEN /\ out' = Run(FALSE, p.target, p.diff, "inputerror", "", <<>>)
                  /\ UNCHANGED migrations
           ELSE IF ToLower(TrimSpace(response)) \notin {"y", "yes"}
             THEN /\ out' = Run(FALSE, p.target, p.diff, "cancelled", response, <<>>)
                  /\ UNCHANGED migrations
           ELSE WriteMigration(FALSE, p.target, p.diff, p.name, response)
    /\ pc' = "idle"
    /\ pending' = <<>>
    /\ UNCHANGED <<schemaFile, now, shown, pureVars>>

EmptyCommand(name) ==
    /\ pc = "idle"
    /\ CanCreate(FileName(now, name))
    /\ migrations' = WriteFile(migrations, FileName(now, name), EmptyTemplate)
    /\ UNCHANGED <<schemaFile, now, pc, pending, out, shown, pureVars>>
(***************************************************************************)
(* The operator: edits schema.prisma, and fills in the files the empty     *)
(* command created with hand-written SQL.                                  *)
(***************************************************************************)
\* CREATE TABLE posts and CREATE TYPE Role, undone in the down section
ManualCreate ==
    <<UpMarker,
      BeginLine,
      CreateTable("posts", <<ColItem("id", "SERIAL", "", FALSE, TRUE),
                             ColItem("title", "TEXT", "", TRUE, FALSE)>>),
      EndLine,
      BeginLine, CreateType("Role", <<"ADMIN", "MEMBER">>), EndLine,
      DownMarker,
      BeginLine, DropType("Role", TRUE), EndLine,
      BeginLine, DropTable("posts", TRUE), EndLine>>

\* a cast with a USING clause, and the removal of posts and Role
ManualAlter ==
    <<UpMarker,
      BeginLine, AlterType("users", "name", "INTEGER", "name::INTEGER"), EndLine,
      BeginLine, DropTable("posts", TRUE), EndLine,
      BeginLine, DropType("Role", FALSE), EndLine,
      DownMarker,
      BeginLine, AlterType("users", "name", "TEXT", "name::TEXT"), EndLine>>

\* the operator removed the Up marker of the template
ManualNoUp ==
    <<BeginLine, DropColumn("users", "name", FALSE), EndLine,
      DownMarker,
      BeginLine, AddColumn("users", ColItem("name", "TEXT", "", FALSE, FALSE)), EndLine>>

ManualFiles == {ManualCreate, ManualAlter, ManualNoUp}

OperatorWrites(file, text) ==
    /\ pc = "idle"
    /\ file \in DOMAIN migrations
    /\ migrations[file] = EmptyTemplate
    /\ migrations' = [migrations EXCEPT ![file] = text]
    /\ UNCHANGED <<schemaFile, now, pc, pending, out, shown, pureVars>>

EditSchema(s) ==
    /\ pc = "idle"
    /\ s # schemaFile
    /\ schemaFile' = s
    /\ UNCHANGED <<migrations, now, pc, pending, out, shown, pureVars>>

\* time.Now() advances
Tick ==
    /\ now < MaxClock
    /\ now' = now + 1
    /\ UNCHANGED <<schemaFile, migrations, pc, pending, out, shown, pureVars>>

NoDiff == <<>>

Init ==
    /\ schemaFile \in SchemaFiles
    /\ migrations = <<>>
    /\ now = 0
    /\ pc = "idle"
    /\ pending = <<>>
    /\ out = NoRun
    /\ shown = <<>>
    /\ pa = EmptySchema
    /\ pb = EmptySchema
    /\ pdiff = NoDiff
    /\ pup = <<>>
    /\ pdown = <<>>

Next ==
    \/ \E name \in Names : GenerateCommand(name)
    \/ \E response \in Responses, readError \in BOOLEAN : AnswerPrompt(response, readError)
    \/ \E name \in Names : EmptyCommand(name)
    \/ \E file \in DOMAIN migrations, text \in ManualFiles : OperatorWrites(file, text)
    \/ \E s \in SchemaFiles : EditSchema(s)
    \/ Tick

Spec == Init /\ [][Next]_vars
(***************************************************************************)
(* The differ and the generators on their own: DiffSchemas,                *)
(* GenerateMigrationSQL and GenerateDownMigrationSQL applied to pairs of   *)
(* schemas, among them schemas with the upper-case SQL types that          *)
(* NormalizeTypeForComparison and the cast rules are written for.          *)
(***************************************************************************)
(* The schema file parser (ParsePrismaFileToSchema and its helpers).  A    *)
(* line of text is the sequence of its lexemes: a word, a quoted string,   *)
(* or one of the characters the parser looks at (space, comma, brackets,   *)
(* parentheses, colon, @, ?), each a lexeme of its own.                    *)
(***************************************************************************)
\* the text of a lexeme sequence
RECURSIVE Concat(_)
Concat(lexs) == IF lexs = <<>> THEN "" ELSE Head(lexs) \o Concat(Tail(lexs))

\* strings.Index(s, c): the position of the first lexeme c, 0 when absent
IndexOf(lexs, c) ==
    IF \E i \in 1..Len(lexs) : lexs[i] = c
      THEN CHOOSE i \in 1..Len(lexs) : lexs[i] = c /\ \A j \in 1..(i - 1) : lexs[j] # c
    ELSE 0

\* strings.Split(s, sep): the pieces between the separators, empty ones kept
RECURSIVE SplitOn(_, _)
SplitOn(lexs, sep) ==
    LET n == IndexOf(lexs, sep)
    IN  IF n = 0 THEN <<lexs>>
        ELSE <<SubSeq(lexs, 1, n - 1)>> \o SplitOn(SubSeq(lexs, n + 1, Len(lexs)), sep)

\* strings.Fields(s): the pieces between runs of spaces
StringsFields(lexs) == SelectSeq(SplitOn(lexs, " "), LAMBDA p : p # <<>>)

\* strings.TrimSpace(s)
RECURSIVE TrimSpaces(_)
TrimSpaces(lexs) ==
    IF lexs = <<>> THEN <<>>
    ELSE IF Head(lexs) = " " THEN TrimSpaces(Tail(lexs))
    ELSE IF lexs[Len(lexs)] = " " THEN TrimSpaces(SubSeq(lexs, 1, Len(lexs) - 1))
    ELSE lexs

\* strings.TrimSuffix(s, ")")
TrimCloseParen(lexs) ==
    IF lexs # <<>> /\ lexs[Len(lexs)] = ")" THEN SubSeq(lexs, 1, Len(lexs) - 1) ELSE lexs

\* the loop of splitComplexArgs: st = [args, current, inBrackets]
RECURSIVE splitComplexLoop(_, _)
splitComplexLoop(lexs, st) ==
    IF lexs = <<>> THEN st
    ELSE LET char == Head(lexs)
             st2 ==
               CASE char = "[" ->
                      [st EXCEPT !.inBrackets = @ + 1, !.current = Append(@, char)]
                 [] char = "]" ->
                      [st EXCEPT !.inBrackets = @ - 1, !.current = Append(@, char)]
                 [] char = "," /\ st.inBrackets = 0 ->
                      IF Len(st.current) > 0
                        THEN [st EXCEPT !.args = Append(@, st.current), !.current = <<>>]
                      ELSE st
                 [] OTHER -> [st EXCEPT !.current = Append(@, char)]
         IN  splitComplexLoop(Tail(lexs), st2)

splitComplexArgs(argsStr) ==
    LET st == splitComplexLoop(argsStr, [args |-> <<>>, current |-> <<>>, inBrackets |-> 0])
    IN  IF Len(st.current) > 0 THEN Append(st.args, st.current) ELSE st.args

\* args = strings.Split(argsStr, ","), each piece trimmed
splitPlainArgs(argsStr) ==
    LET parts == SplitOn(argsStr, ",")
    IN  [i \in 1..Len(parts) |-> TrimSpaces(parts[i])]

\* the argument list of a field attribute, as lexeme sequences
fieldAttributeArgs(argsStr) ==
    IF IndexOf(argsStr, ":") # 0
      THEN LET parts == splitComplexArgs(argsStr)
           IN  [i \in 1..Len(parts) |-> TrimSpaces(parts[i])]
    ELSE splitPlainArgs(argsStr)

TextsOf(args) == [i \in 1..Len(args) |-> Concat(args[i])]

parseFieldAttribute(token) ==
    LET tok == IF token # <<>> /\ Head(token) = "@" THEN Tail(token) ELSE token
        i == IndexOf(tok, "(")
    IN  IF i = 0 THEN Attr(Concat(tok), <<>>)
        ELSE Attr(Concat(SubSeq(tok, 1, i - 1)),
                  TextsOf(fieldAttributeArgs(TrimCloseParen(SubSeq(tok, i + 1, Len(tok))))))

\* l has the prefix "@@"
IsBlockAttribute(l) == Len(l) >= 2 /\ l[1] = "@" /\ l[2] = "@"

parseModelAttribute(line) ==
    LET l == TrimSpaces(IF IsBlockAttribute(line) THEN SubSeq(line, 3, Len(line)) ELSE line)
        i == IndexOf(l, "(")
    IN  IF i = 0 THEN Attr(Concat(l), <<>>)
        ELSE Attr(Concat(SubSeq(l, 1, i - 1)),
                  TextsOf(splitPlainArgs(TrimCloseParen(SubSeq(l, i + 1, Len(l))))))

\* the value parseField returns for a line that is no field
NilField == [Name |-> "", nil |-> TRUE]

\* f.ColumnName after the attributes: the argument of the last @map
RECURSIVE mappedColumn(_, _)
mappedColumn(attrs, name) ==
    IF attrs = <<>> THEN name
    ELSE mappedColumn(Tail(attrs),
             IF Head(attrs).Name = "map" /\ Len(Head(attrs).Args) > 0
               THEN TrimQuotes(Head(attrs).Args[1])
             ELSE name)

parseField(line) ==
    LET parts == StringsFields(line)
        tokens == SelectSeq(SubSeq(parts, 3, Len(parts)), LAMBDA p : Head(p) = "@")
        attrs == [i \in 1..Len(tokens) |-> parseFieldAttribute(tokens[i])]
        type == parts[2]
        optional == type[Len(type)] = "?"
        type1 == IF optional THEN SubSeq(type, 1, Len(type) - 1) ELSE type
        array == Len(type1) >= 2 /\ type1[Len(type1) - 1] = "[" /\ type1[Len(type1)] = "]"
        type2 == IF array THEN SubSeq(type1, 1, Len(type1) - 2) ELSE type1
    IN  IF IsBlockAttribute(line) \/ line = <<"{">> \/ line = <<"}">> THEN NilField
        ELSE IF Len(parts) < 2 THEN NilField
        ELSE Field(Concat(parts[1]), mappedColumn(attrs, Concat(parts[1])), Concat(type2),
                   attrs, optional, array)

\* l has the prefix "model " / "enum "
HasWordPrefix(l, word) == Len(l) >= 2 /\ l[1] = word /\ l[2] = " "

\* A variant of the loop body without the two closing-brace branches.
parseLineNeverClosing(st, line) ==
    LET l == TrimSpaces(line)
        cm == st.currentModel
        ce == st.currentEnum
    IN  IF l = <<>> \/ Head(l) = "//" THEN st
        ELSE IF HasWordPrefix(l, "model")
          THEN LET name == Concat(StringsFields(l)[2])
               IN  [st EXCEPT !.schema.Models = Append(@, Model(name, name, <<>>, <<>>)),
                              !.currentModel = Len(st.schema.Models) + 1]
        ELSE IF HasWordPrefix(l, "enum")
          THEN [st EXCEPT !.schema.Enums = Append(@, Enum(Concat(StringsFields(l)[2]), <<>>)),
                          !.currentEnum = Len(st.schema.Enums) + 1]
        ELSE IF cm # 0
          THEN IF IsBlockAttribute(l)
                 THEN LET attr == parseModelAttribute(l)
                      IN  [st EXCEPT !.schema.Models[cm].Attributes = Append(@, attr),
                                     !.schema.Models[cm].TableName =
                                         IF attr.Name = "map" /\ Len(attr.Args) > 0
                                           THEN TrimQuotes(attr.Args[1])
                                         ELSE @]
               ELSE LET f == parseField(l)
                    IN  IF f = NilField THEN st
                        ELSE [st EXCEPT !.schema.Models[cm].Fields = Append(@, f)]
        ELSE IF ce # 0
          THEN IF l # <<"{">> /\ l # <<"}">>
                 THEN [st EXCEPT !.schema.Enums[ce].Values = Append(@, Concat(l))]
               ELSE st
        ELSE st

\* One turn of the loop over the lines: st = [schema, currentModel, currentEnum],
\* the two pointers kept as positions in schema.Models and schema.Enums, 0 for nil.
parseLine(st, line) ==
    LET l == TrimSpaces(line)
        cm == st.currentModel
        ce == st.currentEnum
    IN  IF l = <<>> \/ Head(l) = "//" THEN st
        ELSE IF HasWordPrefix(l, "model")
          THEN LET name == Concat(StringsFields(l)[2])
               IN  [st EXCEPT !.schema.Models = Append(@, Model(name, name, <<>>, <<>>)),
                              !.currentModel = Len(st.schema.Models) + 1]
        ELSE IF HasWordPrefix(l, "enum")
          THEN [st EXCEPT !.schema.Enums = Append(@, Enum(Concat(StringsFields(l)[2]), <<>>)),
                          !.currentEnum = Len(st.schema.Enums) + 1]
        ELSE IF cm # 0 /\ l = <<"}">> THEN [st EXCEPT !.currentModel = 0]
        ELSE IF ce # 0 /\ l = <<"}">> THEN [st EXCEPT !.currentEnum = 0]
        ELSE IF cm # 0
          THEN IF IsBlockAttribute(l)
                 THEN LET attr == parseModelAttribute(l)
                      IN  [st EXCEPT !.schema.Models[cm].Attributes = Append(@, attr),
                                     !.schema.Models[cm].TableName =
                                         IF attr.Name = "map" /\ Len(attr.Args) > 0
                                           THEN TrimQuotes(attr.Args[1])
                                         ELSE @]
               ELSE LET f == parseField(l)
                    IN  IF f = NilField THEN st
                        ELSE [st EXCEPT !.schema.Models[cm].Fields = Append(@, f)]
        ELSE IF ce # 0
          THEN IF l # <<"{">> /\ l # <<"}">>
                 THEN [st EXCEPT !.schema.Enums[ce].Values = Append(@, Concat(l))]
               ELSE st
        ELSE st

RECURSIVE parseLines(_, _)
parseLines(lines, st) ==
    IF lines = <<>> THEN st ELSE parseLines(Tail(lines), parseLine(st, Head(lines)))

ParsePrismaFileToSchema(lines) ==
    parseLines(lines, [schema |-> EmptySchema, currentModel |-> 0, currentEnum |-> 0]).schema

\* Schema texts.  BlogText writes the relation as Prisma formats it, with a
\* space after each colon and comma; BlogTextDense writes it without spaces.
UserLines ==
    << <<"model", " ", "User", " ", "{">>,
       <<" ", " ", "id", " ", "Int", " ", "@", "id", " ",
         "@", "default", "(", "autoincrement", "(", ")", ")">>,
       <<" ", " ", "name", " ", "String">>,
       <<" ", " ", "posts", " ", "Post", "[", "]">>,
       <<>>,
       <<" ", " ", "@", "@", "map", "(", "\"users\"", ")">>,
       <<"}">> >>

PostLines(relation) ==
    << <<"model", " ", "Post", " ", "{">>,
       <<" ", " ", "id", " ", "Int", " ", "@", "id", " ",
         "@", "default", "(", "autoincrement", "(", ")", ")">>,
       <<" ", " ", "title", " ", "String">>,
       <<" ", " ", "authorId", " ", "Int", " ", "@", "map", "(", "\"author_id\"", ")">>,
       <<" ", " ", "author", " ", "User", " ">> \o relation,
       <<" ", " ", "@", "@", "unique", "(", "[", "title", ",", " ", "authorId", "]", ")">>,
       <<" ", " ", "@", "@", "map", "(", "\"posts\"", ")">>,
       <<"}">> >>

RelationSpaced(onDelete) ==
    <<"@", "relation", "(", "fields", ":", " ", "[", "authorId", "]", ",", " ",
      "references", ":", " ", "[", "id", "]">>
    \o (IF onDelete = "" THEN <<>> ELSE <<",", " ", "onDelete", ":", " ", onDelete>>)
    \o <<")">>

RelationDense(onDelete) ==
    <<"@", "relation", "(", "fields", ":", "[", "authorId", "]", ",",
      "references", ":", "[", "id", "]">>
    \o (IF onDelete = "" THEN <<>> ELSE <<",", "onDelete", ":", onDelete>>)
    \o <<")">>

BlogText      == UserLines \o PostLines(RelationSpaced("Cascade"))
BlogTextPlain == UserLines \o PostLines(RelationSpaced(""))
BlogTextDense == UserLines \o PostLines(RelationDense("Cascade"))

RelationTexts == {BlogText, BlogTextPlain}

\* A schema text with one field of each declared type and the two
\* parameterized overrides.
ProductText ==
    << <<"model", " ", "Product", " ", "{">>,
       <<" ", " ", "id", " ", "Int", " ", "@", "id", " ",
         "@", "default", "(", "autoincrement", "(", ")", ")">>,
       <<" ", " ", "name", " ", "String", " ", "@", "db.VarChar", "(", "255", ")">>,
       <<" ", " ", "title", " ", "String">>,
       <<" ", " ", "price", " ", "Decimal", " ",
         "@", "db.Decimal", "(", "10", ",", "2", ")">>,
       <<" ", " ", "amount", " ", "Decimal">>,
       <<" ", " ", "metadata", " ", "Json", "?">>,
       <<" ", " ", "createdAt", " ", "DateTime">>,
       <<" ", " ", "active", " ", "Boolean">>,
       <<" ", " ", "qty", " ", "Int">>,
       <<" ", " ", "@", "@", "map", "(", "\"products\"", ")">>,
       <<"}">> >>

\* A schema file with a comment, a generator block, an enum, a model and a
\* datasource block.
ConfiguredText ==
    << <<"//", " ", "schema">>,
       <<"generator", " ", "client", " ", "{">>,
       <<" ", " ", "provider", " ", "=", " ", "\"prisma-client-js\"">>,
       <<"}">>,
       <<>>,
       <<"enum", " ", "Role", " ", "{">>,
       <<" ", " ", "ADMIN">>,
       <<" ", " ", "MEMBER">>,
       <<"}">>,
       <<>>,
       <<"model", " ", "User", " ", "{">>,
       <<" ", " ", "id", " ", "Int", " ", "@", "id", " ",
         "@", "default", "(", "autoincrement", "(", ")", ")">>,
       <<" ", " ", "name", " ", "String">>,
       <<" ", " ", "role", " ", "Role">>,
       <<" ", " ", "@", "@", "map", "(", "\"users\"", ")">>,
       <<"}">>,
       <<>>,
       <<"datasource", " ", "db", " ", "{">>,
       <<" ", " ", "provider", " ", "=", " ", "\"postgresql\"">>,
       <<" ", " ", "url", " ", "=", " ", "env", "(", "\"DATABASE_URL\"", ")">>,
       <<"}">> >>

(***************************************************************************)
(* The column list of a CREATE TABLE as text (sql_parser.go), in the same  *)
(* lexemes as the schema text: smartSplitColumns, isConstraint,            *)
(* parseColumnDefinition and extractTypeFromParts on the characters.       *)
(***************************************************************************)
\* the lexemes of a type text
TypeLexemes(type) ==
    CASE type = "VARCHAR(255)" -> <<"VARCHAR", "(", "255", ")">>
      [] type = "DECIMAL(10,2)" -> <<"DECIMAL", "(", "10", ",", "2", ")">>
      [] type = "DOUBLE PRECISION" -> <<"DOUBLE", " ", "PRECISION">>
      [] OTHER -> <<type>>

\* strings.Join(names, ", ")
RECURSIVE JoinComma(_)
JoinComma(names) ==
    IF names = <<>> THEN <<>>
    ELSE IF Len(names) = 1 THEN <<names[1]>>
    ELSE <<names[1], ",", " ">> \o JoinComma(Tail(names))

\* one entry of cols, as the generator writes it
ItemText(item) ==
    CASE item.k = "col" ->
           IF item.serialPK
             THEN <<item.name, " ", "SERIAL", " ", "PRIMARY", " ", "KEY">>
           ELSE <<item.name, " ">> \o TypeLexemes(item.type)
                \o (IF item.default # "" THEN <<" ", "DEFAULT", " ", item.default>> ELSE <<>>)
                \o (IF item.notNull THEN <<" ", "NOT", " ", "NULL">> ELSE <<>>)
      [] item.k = "pk" ->
           <<"PRIMARY", " ", "KEY", " ", "(">> \o JoinComma(item.cols) \o <<")">>
      [] item.k = "fk" ->
           <<"CONSTRAINT", " ", item.name, " ", "FOREIGN", " ", "KEY", " ",
             "(", item.col, ")", " ", "REFERENCES", " ", item.refTable,
             "(", item.refCol, ")">>
           \o (IF item.onDelete # "" THEN <<" ", "ON", " ", "DELETE", " ", item.onDelete>>
               ELSE <<>>)

\* strings.Join(cols, ",\n  "), between "(\n  " and "\n)"
RECURSIVE ColumnListText(_)
ColumnListText(items) ==
    IF items = <<>> THEN <<>>
    ELSE IF Len(items) = 1 THEN ItemText(items[1])
    ELSE ItemText(items[1]) \o <<",", " ", " ", " ">> \o ColumnListText(Tail(items))

\* the text between the parentheses of CREATE TABLE t (\n  ...\n);
CreateTableColumnsText(items) == <<" ", " ", " ">> \o ColumnListText(items) \o <<" ">>

\* A variant that cuts the list at every comma.
splitAtEveryComma(s) == SplitOn(s, ",")

\* parenDepth when the loop of smartSplitColumns reaches character i
parenDepthAt(s, i) ==
    Cardinality({j \in 1..(i - 1) : s[j] = "("}) - Cardinality({j \in 1..(i - 1) : s[j] = ")"})

\* the characters at which the loop closes a part: char == ',' && parenDepth == 0
cutPositions(s) == {i \in 1..Len(s) : s[i] = "," /\ parenDepthAt(s, i) = 0}

\* parts after the loop: the text between one cut and the next, and the rest
\* of the text after the last cut when it is not empty
smartSplitColumns(s) ==
    LET cuts == cutPositions(s)
        nth(n) == CHOOSE i \in cuts : Cardinality({j \in cuts : j < i}) = n - 1
        from(n) == IF n = 1 THEN 1 ELSE nth(n - 1) + 1
        closed == [n \in 1..Cardinality(cuts) |-> SubSeq(s, from(n), nth(n) - 1)]
        last == SubSeq(s, from(Cardinality(cuts) + 1), Len(s))
    IN  IF Len(last) > 0 THEN Append(closed, last) ELSE closed

\* strings.ToUpper(x) == word, for a lexeme x
UpperIs(x, word) == x \in {word, ToLower(word)}

\* lexemes that have no letters
Uncased == {"(", ")", ",", " ", "255", "10", "2"}
LowerLexeme(x) == IF x \in Uncased THEN x ELSE ToLower(ToUpper(x))

\* strings.HasPrefix(strings.ToUpper(part), "<A> <B>")
HasTwoWordPrefix(part, a, b) ==
    Len(part) >= 3 /\ UpperIs(part[1], a) /\ part[2] = " " /\ UpperIs(part[3], b)

isConstraintText(rawPart) ==
    LET part == TrimSpaces(rawPart)
    IN  \/ HasTwoWordPrefix(part, "PRIMARY", "KEY")
        \/ HasTwoWordPrefix(part, "FOREIGN", "KEY")
        \/ part # <<>> /\ (UpperIs(part[1], "UNIQUE") \/ UpperIs(part[1], "CONSTRAINT")
                           \/ UpperIs(part[1], "CHECK")
                           \/ NameHasConstraintPrefix(ToUpper(part[1])))

\* strings.Contains(defUpper, "<A> <B>")
ContainsTwoWords(def, a, b) ==
    \E i \in 1..(Len(def) - 2) :
        UpperIs(def[i], a) /\ def[i + 1] = " " /\ UpperIs(def[i + 2], b)

\* the loop of extractTypeFromParts: add the words up to the closing parenthesis
RECURSIVE typeUpToClose(_, _)
typeUpToClose(typeStr, parts) ==
    IF parts = <<>> THEN typeStr
    ELSE IF IndexOf(Head(parts), ")") # 0 THEN typeStr \o <<" ">> \o Head(parts)
    ELSE typeUpToClose(typeStr \o <<" ">> \o Head(parts), Tail(parts))

extractTypeFromWords(parts) ==
    IF Len(parts) = 0 THEN ""
    ELSE LET first == parts[1]
             typeStr == IF IndexOf(first, "(") # 0 /\ IndexOf(first, ")") = 0
                          THEN typeUpToClose(first, Tail(parts))
                        ELSE first
             spaceless == SelectSeq(typeStr, LAMBDA x : x # " ")
         IN  Concat([i \in 1..Len(spaceless) |-> LowerLexeme(spaceless[i])])

NoColumn == [Name |-> "", Type |-> "", NotNull |-> FALSE, PrimaryKey |-> FALSE]

parseColumnDefinitionText(def) ==
    LET parts == StringsFields(def)
    IN  IF Len(parts) < 2 THEN NoColumn
        ELSE [Name |-> LowerLexeme(Concat(parts[1])),
              Type |-> extractTypeFromWords(Tail(parts)),
              NotNull |-> ContainsTwoWords(def, "NOT", "NULL"),
              PrimaryKey |-> ContainsTwoWords(def, "PRIMARY", "KEY")]

parseColumnDefinitionsText(columnsStr) ==
    LET parts == smartSplitColumns(columnsStr)
        kept == SelectSeq(parts, LAMBDA p : TrimSpaces(p) # <<>> /\ ~isConstraintText(p))
        cols == [i \in 1..Len(kept) |-> parseColumnDefinitionText(TrimSpaces(kept[i]))]
    IN  SelectSeq(cols, LAMBDA c : c.Name # "")

(***************************************************************************)
eStatus == Enum("Status", <<"OPEN">>)

fIdSQL   == Field("id", "id", "SERIAL", <<>>, FALSE, FALSE)
fNameSQL == Field("name", "name", "TEXT", <<>>, FALSE, FALSE)
fPriceSQL == Field("price", "price", "DECIMAL(10,2)", <<>>, FALSE, FALSE)

PostsIndexed ==
    Model("Post", "posts", <<fId, fTitle, fAuthId, fAuthor>>,
          mapPosts \o <<Attr("index", <<"[authorId]">>),
                        Attr("unique", <<"[title", "authorId]">>)>>)

\* The schema the replay yields for the migration generated from a schema file
\* on an empty migrations directory: the form every current schema has.
ReplayOf(target) ==
    applyMigrationFile(EmptySchema,
        MigrationText(GenerateMigrationSQL(
            SchemaDiff(target.Models, <<>>, target.Enums, <<>>, <<>>, <<>>, <<>>)), <<>>))

\* a table with a primary key, a default, a NOT NULL and a nullable column
TD == Schema(<<Users(<<fId, fNameDef, fAge>>)>>, <<>>)

SchemaPool ==
    {T0, T1, T2, T3, ReplayOf(T1), TD, ReplayOf(TD),
     Schema(<<Model("prices", "prices", <<fIdSQL, fPriceSQL, fNameSQL>>, <<>>)>>, <<>>),
     ParsePrismaFileToSchema(BlogText), ParsePrismaFileToSchema(BlogTextPlain),
     ParsePrismaFileToSchema(BlogTextDense), ParsePrismaFileToSchema(ProductText),
     Schema(<<Users(<<fId, fNameInt>>)>>, <<>>),
     Schema(<<Users(<<fId, fNameUnq, fPosts>>), PostsIndexed>>, <<eRole, eStatus>>),
     Schema(<<Model("users", "users", <<fIdSQL, fNameSQL>>, <<>>)>>, <<>>),
     Schema(<<Users(<<fId, fName, fAgeReq, fNameUnq>>)>>, <<eStatus>>),
     Schema(<<Posts(<<fId, fTitle>>)>>, <<eRole>>),
     Schema(<<Users(<<fId, fAgeFlt>>)>>, <<>>),
     Schema(<<Users(<<fId, fAgeStr, fRole>>)>>, <<eRole>>),
     Schema(<<Users(<<fId, fName, fAge>>), Model("Tag", "tags", <<fId>>, <<>>)>>, <<eRole>>),
     Schema(<<Users(<<fId, fNameInt, fTitle>>), PostsIndexed>>, <<eStatus>>),
     Schema(<<Users(<<fId, fNameVar>>)>>, <<>>),
     Schema(<<Users(<<fId, fAgeBool>>)>>, <<>>),
     ParsePrismaFileToSchema(ConfiguredText)}

PureInit ==
    /\ schemaFile = EmptySchema
    /\ migrations = <<>>
    /\ now = 0
    /\ pc = "idle"
    /\ pending = <<>>
    /\ out = NoRun
    /\ shown = <<>>
    /\ pa \in SchemaPool
    /\ pb \in SchemaPool
    /\ pdiff = NoDiff
    /\ pup = <<>>
    /\ pdown = <<>>

\* diff := DiffSchemas(pa, pb)
PDiff ==
    /\ \E d \in DiffSchemas(pa, pb) : pdiff' = <<d>>
    /\ pup' = <<>>
    /\ pdown' = <<>>
    /\ UNCHANGED <<cmdVars, pa, pb>>

\* up := GenerateMigrationSQL(diff)
PGenUp ==
    /\ pdiff # NoDiff
    /\ pup' = <<GenerateMigrationSQL(pdiff[1])>>
    /\ UNCHANGED <<cmdVars, pa, pb, pdiff, pdown>>

\* down := GenerateDownMigrationSQL(diff)
PGenDown ==
    /\ pdiff # NoDiff
    /\ pdown' = <<GenerateDownMigrationSQL(pdiff[1])>>
    /\ UNCHANGED <<cmdVars, pa, pb, pdiff, pup>>

PureNext == PDiff \/ PGenUp \/ PGenDown

PureSpec == PureInit /\ [][PureNext]_vars
(***************************************************************************)
(* Vocabulary of the properties.                                           *)
(***************************************************************************)
ReplayedSchema == ParseMigrationsToSchema(migrations)

AllEmpty(diff) ==
    /\ diff.ModelsAdded = <<>>
    /\ diff.ModelsRemoved = <<>>
    /\ diff.EnumsAdded = <<>>
    /\ diff.EnumsRemoved = <<>>
    /\ diff.FieldsAdded = <<>>
    /\ diff.FieldsRemoved = <<>>
    /\ diff.FieldsModified = <<>>

TableNames(models) == {models[i].TableName : i \in 1..Len(models)}
ColumnNames(fields) == {fields[i].ColumnName : i \in 1..Len(fields)}
EnumNames(enums) == {enums[i].Name : i \in 1..Len(enums)}

NormalizedType(f) == NormalizeTypeForComparison(f.Type, f.Attributes)

\* a and b have the same tables, per table the same columns, per column the same
\* type under typeOf, the same IsOptional and IsArray, and the same enum names
SameStructure(a, b, typeOf(_)) ==
    /\ TableNames(a.Models) = TableNames(b.Models)
    /\ EnumNames(a.Enums) = EnumNames(b.Enums)
    /\ \A i \in 1..Len(a.Models), j \in 1..Len(b.Models) :
          a.Models[i].TableName = b.Models[j].TableName =>
              /\ ColumnNames(a.Models[i].Fields) = ColumnNames(b.Models[j].Fields)
              /\ \A f \in Range(a.Models[i].Fields), g \in Range(b.Models[j].Fields) :
                    f.ColumnName = g.ColumnName =>
                        /\ typeOf(f) = typeOf(g)
                        /\ f.IsOptional = g.IsOptional
                        /\ f.IsArray = g.IsArray

\* C1, as stated: whenever the replayed schema and the schema of the schema file
\* are structurally identical under NormalizeTypeForComparison, DiffSchemas
\* reports no change in any of its seven collections.
C1_NoOpDiffUnderNormalization ==
    SameStructure(ReplayedSchema, schemaFile, NormalizedType) =>
        \A diff \in DiffSchemas(ReplayedSchema, schemaFile) : AllEmpty(diff)

\* C1, amended: whenever the replayed schema and the schema of the schema file
\* are structurally identical with the columns' types compared by
\* GetSQLTypeForField, DiffSchemas reports no change in any of its seven
\* collections.
C1_NoOpDiffUnderSQLType ==
    SameStructure(ReplayedSchema, schemaFile, GetSQLTypeForField) =>
        \A diff \in DiffSchemas(ReplayedSchema, schemaFile) : AllEmpty(diff)

\* generate has just compared a non-empty replayed schema with an identical
\* schema file and found nothing
C1_Witness ==
    /\ out.result = "nochanges"
    /\ out.target = schemaFile
    /\ AllEmpty(out.diff)
    /\ ReplayedSchema.Models # <<>>
    /\ SameStructure(ReplayedSchema, schemaFile, GetSQLTypeForField)

\* a step of the generate command that writes a migration file
GenerateWrites ==
    /\ migrations' # migrations
    /\ \/ \E name \in Names : GenerateCommand(name)
       \/ \E response \in Responses, readError \in BOOLEAN : AnswerPrompt(response, readError)

\* C2: when generate writes a migration, the directory with the new file replays
\* to a schema whose diff against the same target is empty, so that a later run
\* reports no changes.
C2_ConvergesInOneStep ==
    [][GenerateWrites =>
         \A diff \in DiffSchemas(ParseMigrationsToSchema(migrations'), out'.target) :
             AllEmpty(diff)]_vars

\* C3: the tables DiffSchemas(A, B) reports as added are those DiffSchemas(B, A)
\* reports as removed, and the other way round.
C3_AddedRemovedSymmetry ==
    pdiff # NoDiff =>
        \A back \in DiffSchemas(pb, pa) :
            /\ TableNames(pdiff[1].ModelsAdded) = TableNames(back.ModelsRemoved)
            /\ TableNames(pdiff[1].ModelsRemoved) = TableNames(back.ModelsAdded)

C3_Witness ==
    /\ pdiff # NoDiff
    /\ pdiff[1].ModelsAdded # <<>>
    /\ pdiff[1].ModelsRemoved # <<>>

\* C4: with migrations present, generate reports "No changes detected" exactly
\* when all seven collections of the diff are empty.
C4_NoChangesIffAllEmpty ==
    (out.result # "none" /\ ~out.initial) =>
        (out.result = "nochanges" <=> AllEmpty(out.diff))

\* the risky operations of a diff: a risky or impossible cast in either
\* direction, a column made NOT NULL, a removed column, table or enum
RiskyModification(fc) ==
    LET cur == NormalizedType(fc.CurrentField)
        tgt == NormalizedType(fc.Field)
    IN  \/ fc.CurrentField.IsOptional /\ ~fc.Field.IsOptional
        \/ /\ cur # tgt
           /\ \/ CanCastType(cur, tgt).IsRisky
              \/ ~CanCastType(cur, tgt).CanCast
              \/ CanCastType(tgt, cur).IsRisky
              \/ ~CanCastType(tgt, cur).CanCast

RiskyDiff(diff) ==
    \/ diff.ModelsRemoved # <<>>
    \/ diff.FieldsRemoved # <<>>
    \/ diff.EnumsRemoved # <<>>
    \/ \E i \in 1..Len(diff.FieldsModified) : RiskyModification(diff.FieldsModified[i])

\* C5: when the diff holds a risky operation the risks are shown, and a file is
\* created only after the answer y or yes.
C5_RisksShownAndConfirmed ==
    (out.result # "none" /\ ~out.initial /\ RiskyDiff(out.diff)) =>
        /\ shown # <<>>
        /\ out.result \in {"prompt", "created", "cancelled", "inputerror"}
        /\ out.result = "created" => ToLower(TrimSpace(out.response)) \in {"y", "yes"}
\* an identifier as the parser stores it
Lowered(name) == ToLower(ToUpper(name))

\* the names of dir in ascending order
Ascending(names) ==
    CHOOSE p \in PermsOf(names) : \A i, j \in 1..Cardinality(names) : i < j => LexLess(p[i], p[j])

\* the statements ApplyMigrationsFromDir hands to ParseSQLStatement, in order
ReplayedStatements(dir) ==
    LET order == Ascending(DOMAIN dir)
    IN  Flatten([i \in 1..Cardinality(DOMAIN dir) |-> MinifySQL(UpSectionOf(dir[order[i]]))])

\* the tables created by CREATE TABLE and not dropped later
RECURSIVE TablesAfter(_, _)
TablesAfter(stmts, tables) ==
    IF stmts = <<>> THEN tables
    ELSE LET st == Head(stmts)
         IN  TablesAfter(Tail(stmts),
                 IF st.k = "createTable" THEN tables \cup {Lowered(st.table)}
                 ELSE IF st.k = "dropTable" THEN tables \ {Lowered(st.table)}
                 ELSE tables)

\* the enums created by CREATE TYPE and not dropped later, as <<name, values>>
RECURSIVE EnumsAfter(_, _)
EnumsAfter(stmts, enums) ==
    IF stmts = <<>> THEN enums
    ELSE LET st == Head(stmts)
         IN  EnumsAfter(Tail(stmts),
                 IF st.k = "createType" THEN enums \cup {<<st.name, st.values>>}
                 ELSE IF st.k = "dropType" THEN {e \in enums : e[1] # st.name}
                 ELSE enums)

\* C6: the replayed schema holds exactly the tables created and not dropped
\* later, and exactly the enums created, with their values, and not dropped later.
C6_CreatedAndNotDropped ==
    LET stmts == ReplayedStatements(migrations)
    IN  /\ TableNames(ReplayedSchema.Models) = TablesAfter(stmts, {})
        /\ {<<ReplayedSchema.Enums[i].Name, ReplayedSchema.Enums[i].Values>> :
               i \in 1..Len(ReplayedSchema.Enums)} = EnumsAfter(stmts, {})

\* schema with the Type of column c of table t set to type
WithType(schema, t, c, type) ==
    [schema EXCEPT !.Models =
        [i \in 1..Len(@) |->
            IF @[i].TableName # t THEN @[i]
            ELSE [@[i] EXCEPT !.Fields =
                     [j \in 1..Len(@) |->
                         IF @[j].ColumnName = c THEN [@[j] EXCEPT !.Type = type]
                         ELSE @[j]]]]]

\* C7: replaying ALTER TABLE t ALTER COLUMN c TYPE T [USING e] sets the Type of
\* column c of table t to T alone and changes nothing else.
C7_AlterTypeStoresTypeAlone ==
    LET stmts == ReplayedStatements(migrations)
    IN  \A n \in 1..Len(stmts) :
            stmts[n].k = "alterType" =>
                applyStatements(SubSeq(stmts, 1, n), EmptySchema)
                    = WithType(applyStatements(SubSeq(stmts, 1, n - 1), EmptySchema),
                               Lowered(stmts[n].table), Lowered(stmts[n].column),
                               Lowered(stmts[n].type))

\* the statements of a file that do not belong to its down section: those
\* after the Up marker (from the start when there is none) and before the Down
\* marker that follows
UpStatements(lines) ==
    LET up == IndexOfLine(lines, UpMarker)
        downs == {i \in (up + 1)..Len(lines) : lines[i] = DownMarker}
        last == IF downs = {} THEN Len(lines)
                ELSE (CHOOSE i \in downs : \A j \in downs : i <= j) - 1
    IN  SelectSeq(SubSeq(lines, up + 1, last), IsSQL)

\* C8: the replayed schema is the empty schema with the up-section statements
\* of all files applied, files in ascending order of their names, statements
\* in the order of the text; no statement of a down section is applied.
C8_UpSectionsInFilenameOrder ==
    LET order == Ascending(DOMAIN migrations)
        stmts == Flatten([i \in 1..Cardinality(DOMAIN migrations) |->
                             UpStatements(migrations[order[i]])])
    IN  ReplayedSchema = applyStatements(stmts, EmptySchema)
\* the SQL statements of a generated text, without markers and comments
Statements(text) == SelectSeq(text, IsSQL)

CountKind(stmts, kind) == Cardinality({i \in 1..Len(stmts) : stmts[i].k = kind})

\* the place of a statement in the order of GenerateMigrationSQL: an index on
\* a table that already exists comes with the column it was added for
UpPhase(st, diff) ==
    CASE st.k = "createType" -> 1
      [] st.k = "addColumn" -> 2
      [] st.k \in {"createUniqueIndex", "createIndex"}
            /\ st.table \notin TableNames(diff.ModelsAdded) -> 2
      [] st.k = "dropColumn" -> 3
      [] st.k \in {"alterType", "setNotNull", "dropNotNull"} -> 4
      [] st.k = "createTable" -> 5
      [] st.k \in {"createUniqueIndex", "createIndex"}
            /\ st.table \in TableNames(diff.ModelsAdded) -> 5
      [] st.k = "dropTable" -> 6
      [] OTHER -> 0

\* within the statements of one table: CREATE TABLE, unique indexes, indexes
TableRank(st) ==
    CASE st.k = "createTable" -> 1
      [] st.k = "createUniqueIndex" -> 2
      [] st.k = "createIndex" -> 3
      [] OTHER -> 0

\* the statements of phase are grouped by table, and each group is a CREATE
\* TABLE, then the table's unique indexes, then its other indexes
TableGroups(stmts, phaseOf(_), phase) ==
    \A i, j \in 1..Len(stmts) :
        (i < j /\ phaseOf(stmts[i]) = phase /\ phaseOf(stmts[j]) = phase
               /\ stmts[i].table = stmts[j].table) =>
            /\ TableRank(stmts[i]) <= TableRank(stmts[j])
            /\ \E h \in 1..i : stmts[h].k = "createTable" /\ stmts[h].table = stmts[i].table
            /\ \A m \in i..j : stmts[m].table = stmts[i].table

\* C9: GenerateMigrationSQL emits the enum creations, then the column
\* additions, then the column removals, then the column modifications, then
\* per added table its CREATE TABLE, its unique indexes and its other indexes,
\* then the table drops; every CREATE TYPE precedes every CREATE TABLE.
C9_UpStatementOrder ==
    pup # <<>> =>
        LET diff == pdiff[1]
            stmts == Statements(pup[1])
            phaseOf(st) == UpPhase(st, diff)
        IN  /\ \A i, j \in 1..Len(stmts) : i < j => phaseOf(stmts[i]) <= phaseOf(stmts[j])
            /\ \A i \in 1..Len(stmts) : phaseOf(stmts[i]) # 0
            /\ TableGroups(stmts, phaseOf, 5)
            /\ CountKind(stmts, "createType") = Len(diff.EnumsAdded)
            /\ CountKind(stmts, "createTable") = Len(diff.ModelsAdded)
            /\ CountKind(stmts, "dropTable") = Len(diff.ModelsRemoved)

C9_Witness ==
    /\ pup # <<>>
    /\ \A kind \in {"createType", "addColumn", "dropColumn", "alterType", "createTable",
                    "createUniqueIndex", "createIndex", "dropTable"} :
          CountKind(Statements(pup[1]), kind) > 0

\* the place of a statement in the order of GenerateDownMigrationSQL
DownPhase(st, diff) ==
    CASE st.k = "dropTable" -> 1
      [] st.k = "dropType" -> 2
      [] st.k = "dropColumn" -> 3
      [] st.k = "addColumn" -> 4
      [] st.k \in {"createUniqueIndex", "createIndex"}
            /\ st.table \notin TableNames(diff.ModelsRemoved) -> 4
      [] st.k \in {"alterType", "setNotNull", "dropNotNull"} -> 5
      [] st.k = "createType" -> 6
      [] st.k = "createTable" -> 7
      [] st.k \in {"createUniqueIndex", "createIndex"}
            /\ st.table \in TableNames(diff.ModelsRemoved) -> 7
      [] OTHER -> 0

\* C10: GenerateDownMigrationSQL emits the drops of the added tables, then
\* the drops of the added enums, then the drops of the added columns, then the
\* re-additions of the removed columns, then the reversions of the modified
\* columns, then the re-creations of the removed enums, then the re-creations
\* of the removed tables.
C10_DownStatementOrder ==
    pdown # <<>> =>
        LET diff == pdiff[1]
            stmts == Statements(pdown[1])
            phaseOf(st) == DownPhase(st, diff)
        IN  /\ \A i, j \in 1..Len(stmts) : i < j => phaseOf(stmts[i]) <= phaseOf(stmts[j])
            /\ \A i \in 1..Len(stmts) : phaseOf(stmts[i]) # 0
            /\ CountKind(stmts, "dropTable") = Len(diff.ModelsAdded)
            /\ CountKind(stmts, "dropType") = Len(diff.EnumsAdded)
            /\ CountKind(stmts, "createType") = Len(diff.EnumsRemoved)
            /\ CountKind(stmts, "createTable") = Len(diff.ModelsRemoved)

C10_Witness ==
    /\ pdown # <<>>
    /\ \A kind \in {"dropTable", "dropType", "dropColumn", "addColumn", "alterType",
                    "createType", "createTable"} :
          CountKind(Statements(pdown[1]), kind) > 0

\* what a generated text creates and what it drops: tables by name, enums by
\* name, columns as <<table, column>>
Creates(stmts) ==
    [tables  |-> {stmts[i].table : i \in {n \in 1..Len(stmts) : stmts[n].k = "createTable"}},
     enums   |-> {stmts[i].name : i \in {n \in 1..Len(stmts) : stmts[n].k = "createType"}},
     columns |-> {<<stmts[i].table, stmts[i].item.name>> :
                     i \in {n \in 1..Len(stmts) : stmts[n].k = "addColumn"}}]

Drops(stmts) ==
    [tables  |-> {stmts[i].table : i \in {n \in 1..Len(stmts) : stmts[n].k = "dropTable"}},
     enums   |-> {stmts[i].name : i \in {n \in 1..Len(stmts) : stmts[n].k = "dropType"}},
     columns |-> {<<stmts[i].table, stmts[i].column>> :
                     i \in {n \in 1..Len(stmts) : stmts[n].k = "dropColumn"}}]

\* C11: the down migration drops exactly the tables, enums and columns the up
\* migration creates, and creates exactly those the up migration drops.
C11_DownInvertsUp ==
    (pup # <<>> /\ pdown # <<>>) =>
        /\ Drops(Statements(pdown[1])) = Creates(Statements(pup[1]))
        /\ Creates(Statements(pdown[1])) = Drops(Statements(pup[1]))

(***************************************************************************)
(* Column changes of a migration.                                          *)
(***************************************************************************)
\* the line that opens the statement block holding line i
BlockStart(text, i) ==
    CHOOSE j \in 0..i :
        /\ j = 0 \/ text[j].k = "begin"
        /\ \A n \in (j + 1)..i : text[n].k # "begin"

\* line i is in a statement block that has a warning line before it
Warned(text, i) ==
    \E j \in BlockStart(text, i)..i : j > 0 /\ text[j].k = "warning"

\* the modified fields whose SQL type goes from one type to another
TypeChanges(diff, from, to) ==
    {fc \in Range(diff.FieldsModified) :
        /\ IsMaterialized(fc.Field)
        /\ GetSQLTypeForField(fc.CurrentField) = from
        /\ GetSQLTypeForField(fc.Field) = to
        /\ fc.CurrentField.IsOptional = fc.Field.IsOptional}

CastTo(fc, type) ==
    AlterType(fc.ModelName, fc.Field.ColumnName, type,
              fc.Field.ColumnName \o "::" \o type)

\* C12: a field modified from TEXT to INTEGER gets, in the up migration, the
\* ALTER COLUMN TYPE INTEGER statement with USING <column>::INTEGER under a
\* warning, and in the down migration the statement casting back to TEXT,
\* also under a warning.
C12_TextToIntegerBothWarned ==
    (pup # <<>> /\ pdown # <<>>) =>
        \A fc \in TypeChanges(pdiff[1], "TEXT", "INTEGER") :
            /\ \E i \in 1..Len(pup[1]) :
                   pup[1][i] = CastTo(fc, "INTEGER") /\ Warned(pup[1], i)
            /\ \E i \in 1..Len(pdown[1]) :
                   pdown[1][i] = CastTo(fc, "TEXT") /\ Warned(pdown[1], i)


\* the modified fields whose SQL type and array flag are the same on both
\* sides: the differ reports them only because IsOptional differs
NullabilityChanges(diff) ==
    {fc \in Range(diff.FieldsModified) :
        /\ IsMaterialized(fc.Field)
        /\ GetSQLTypeForField(fc.CurrentField) = GetSQLTypeForField(fc.Field)
        /\ fc.CurrentField.IsArray = fc.Field.IsArray
        /\ fc.CurrentField.IsOptional # fc.Field.IsOptional}

\* text holds a statement block made of exactly these lines
HasBlock(text, lines) ==
    \E i \in 0..(Len(text) - Len(lines)) :
        \A n \in 1..Len(lines) : text[i + n] = lines[n]

\* text holds the block <<begin, one warning, stmt, end>>
HasWarnedBlock(text, stmt) ==
    \E i \in 1..(Len(text) - 3) :
        /\ text[i] = BeginLine
        /\ text[i + 1].k = "warning"
        /\ text[i + 2] = stmt
        /\ text[i + 3] = EndLine

\* C13: a field modified only in its nullability gets, in the up migration,
\* exactly DROP NOT NULL without a warning when the target is nullable, and
\* exactly SET NOT NULL under a warning when it is not.
C13_NullabilityOnly ==
    pup # <<>> =>
        \A fc \in NullabilityChanges(pdiff[1]) :
            LET t == fc.ModelName
                c == fc.Field.ColumnName
            IN  IF fc.Field.IsOptional
                  THEN HasBlock(pup[1], <<BeginLine, DropNotNull(t, c), EndLine>>)
                ELSE HasWarnedBlock(pup[1], SetNotNull(t, c))

\* the removed fields that have a column
ColumnsRemoved(diff) == {fc \in Range(diff.FieldsRemoved) : IsMaterialized(fc.Field)}

\* a written type names the type of a field: the field's own type or the SQL
\* type it maps to, letter case apart
NamesTypeOf(written, f) ==
    ToUpper(written) \in {ToUpper(f.Type), GetSQLTypeForField(f)}

NonColumns(schema) ==
    UNION {{<<schema.Models[i].TableName, f.ColumnName>> :
               f \in {g \in Range(schema.Models[i].Fields) : ~IsMaterialized(g)}} :
           i \in 1..Len(schema.Models)}

\* <<table, column name>> of the columns a statement defines or alters
ColumnsOf(stmt) ==
    CASE stmt.k = "createTable" ->
           {<<stmt.table, stmt.items[i].name>> :
               i \in {n \in 1..Len(stmt.items) : stmt.items[n].k = "col"}}
      [] stmt.k = "addColumn" -> {<<stmt.table, stmt.item.name>>}
      [] stmt.k \in {"dropColumn", "alterType", "setNotNull", "dropNotNull"} ->
           {<<stmt.table, stmt.column>>}
      [] OTHER -> {}

ColumnsTouched(text) ==
    UNION {ColumnsOf(Statements(text)[i]) : i \in 1..Len(Statements(text))}

\* C15: neither the up nor the down migration defines or alters a column for
\* an array field or a relation field of the two schemas.
C15_NoColumnForRelations ==
    (pup # <<>> /\ pdown # <<>>) =>
        (ColumnsTouched(pup[1]) \cup ColumnsTouched(pdown[1]))
            \cap (NonColumns(pa) \cup NonColumns(pb)) = {}


(***************************************************************************)
(* Relations and column types of a schema text.                            *)
(***************************************************************************)
\* the CREATE TABLE statements of a text for one table
CreateTablesOf(text, table) ==
    {stmt \in Range(Statements(text)) : stmt.k = "createTable" /\ stmt.table = table}

\* a CREATE TABLE holds the foreign key after all its column definitions
HasForeignKeyLast(stmt, name, col, refTable, refCol) ==
    \E n \in 1..Len(stmt.items) :
        /\ stmt.items[n].k = "fk"
        /\ stmt.items[n].name = name
        /\ stmt.items[n].col = col
        /\ stmt.items[n].refTable = refTable
        /\ stmt.items[n].refCol = refCol
        /\ \A m \in 1..Len(stmt.items) : stmt.items[m].k = "col" => m < n

\* C16: for a schema text whose Post model declares
\* author User @relation(fields: [authorId], references: [id]), the
\* CREATE TABLE of posts holds CONSTRAINT fk_posts_author_id FOREIGN KEY
\* (author_id) REFERENCES users(id), after all the column definitions.
C16_RelationGivesForeignKey ==
    (pup # <<>> /\ pb \in {ParsePrismaFileToSchema(text) : text \in RelationTexts}) =>
        \A stmt \in CreateTablesOf(pup[1], "posts") :
            HasForeignKeyLast(stmt, "fk_posts_author_id", "author_id", "users", "id")


\* the column type the type table of the documentation gives a field:
\* the parameterized override first, the fixed table otherwise
DocumentedOverride(f) ==
    LET vs == SelectSeq(f.Attributes, LAMBDA a : a.Name = "db.VarChar" /\ Len(a.Args) = 1)
        ds == SelectSeq(f.Attributes, LAMBDA a : a.Name = "db.Decimal" /\ Len(a.Args) = 2)
    IN  IF vs # <<>> THEN "VARCHAR(" \o vs[1].Args[1] \o ")"
        ELSE IF ds # <<>> THEN "DECIMAL(" \o ds[1].Args[1] \o "," \o ds[1].Args[2] \o ")"
        ELSE ""

DocumentedType(f) ==
    IF DocumentedOverride(f) # "" THEN DocumentedOverride(f)
    ELSE CASE f.Type = "String" -> "TEXT"
           [] f.Type = "Int" -> "INTEGER"
           [] f.Type = "DateTime" -> "TIMESTAMP"
           [] f.Type = "Boolean" -> "BOOLEAN"
           [] f.Type = "Decimal" -> "NUMERIC"
           [] f.Type = "Json" -> "JSONB"

DocumentedTypes == {"String", "Int", "DateTime", "Boolean", "Decimal", "Json"}

\* the schemas parsed from a schema text
Declared ==
    {ParsePrismaFileToSchema(text) :
        text \in {BlogText, BlogTextPlain, BlogTextDense, ProductText}}

\* C17: the type written for a column of a declared field is its @db
\* override (VARCHAR(n), DECIMAL(p,s)) when it has one, and otherwise TEXT,
\* INTEGER, TIMESTAMP, BOOLEAN, NUMERIC or JSONB by the field's type.
C17_ColumnTypes ==
    (pup # <<>> /\ pb \in Declared) =>
        \A i \in 1..Len(pb.Models) :
            \A stmt \in CreateTablesOf(pup[1], pb.Models[i].TableName) :
                \A f \in Range(pb.Models[i].Fields) :
                    \A n \in 1..Len(stmt.items) :
                        (/\ stmt.items[n].k = "col"
                         /\ stmt.items[n].name = f.ColumnName
                         /\ ~stmt.items[n].serialPK
                         /\ f.Type \in DocumentedTypes)
                        => stmt.items[n].type = DocumentedType(f)

(***************************************************************************)
(* The type mapping and the cast rules.                                    *)
(***************************************************************************)
\* the declarative types of the mapping table
MappingTable ==
    {"String", "Int", "BigInt", "Float", "Decimal", "Boolean", "DateTime", "Json"}

\* C18: for each declarative type of the mapping table, the SQL type it maps
\* to normalises to the same type as the declarative type itself, whatever the
\* attributes of the fields in play.
C18_MappingNormalisesBack ==
    \A T \in MappingTable :
        \A attrs \in {<<>>} \cup {f.Attributes : f \in UNION {Range(pb.Models[i].Fields) :
                                                     i \in 1..Len(pb.Models)}} :
            NormalizeTypeForComparison(GetPostgreSQLType(T), attrs)
                = NormalizeTypeForComparison(T, attrs)

\* a field stored under the SQL name of its declared type, changed in
\* nullability alone: the up migration has no type statement for it
C18_Witness ==
    /\ pup # <<>>
    /\ \E fc \in NullabilityChanges(pdiff[1]) :
           /\ fc.Field.Type \in MappingTable
           /\ fc.CurrentField.Type = GetPostgreSQLType(fc.Field.Type)
           /\ fc.Field.IsOptional
           /\ HasBlock(pup[1], <<BeginLine,
                                 DropNotNull(fc.ModelName, fc.Field.ColumnName),
                                 EndLine>>)

\* type names CanCastType is called with: the declarative names, their SQL
\* names, a replayed name and an enum name, and the normalised types of the
\* fields of a schema
CastTypeNames ==
    MappingTable \cup {GetPostgreSQLType(T) : T \in MappingTable} \cup {"text", "Role"}

NormalizedTypesOf(schema) ==
    {NormalizedType(f) : f \in UNION {Range(schema.Models[i].Fields) :
                                         i \in 1..Len(schema.Models)}}

SameSQLType(s, t) == GetPostgreSQLType(s) = GetPostgreSQLType(t)

TwoListArgs ==
    <<"fields", ":", " ", "[", "a", ",", " ", "b", "]", ",", " ",
      "references", ":", " ", "[", "c", ",", " ", "d", "]">>

\* @@unique([a, b])
OneListBlockAttribute ==
    <<"@", "@", "unique", "(", "[", "a", ",", " ", "b", "]", ")">>

\* the @@unique and @@index attributes of a schema
ListAttributes(schema) ==
    UNION {{a \in Range(schema.Models[i].Attributes) : a.Name \in {"unique", "index"}} :
           i \in 1..Len(schema.Models)}

\* C20: an attribute's argument list is cut at the commas outside brackets
\* only, for field attributes and block attributes alike: the relation
\* arguments fields: [a, b], references: [c, d] are two arguments, and a block
\* attribute given one bracket list, in the examples and in every parsed
\* schema text, has one argument.
C20_SplitAtDepthZero ==
    pb \in Declared =>
        /\ Len(parseFieldAttribute(<<"@", "relation", "(">> \o TwoListArgs \o <<")">>).Args) = 2
        /\ Len(parseModelAttribute(OneListBlockAttribute).Args) = 1
        /\ \A a \in ListAttributes(pb) : Len(a.Args) = 1


(***************************************************************************)
(* Column lists of CREATE TABLE statements.                                *)
(***************************************************************************)
\* the number of commas of a text that are outside parentheses
RECURSIVE CommasOutside(_, _)
CommasOutside(text, depth) ==
    IF text = <<>> THEN 0
    ELSE CASE Head(text) = "(" -> CommasOutside(Tail(text), depth + 1)
           [] Head(text) = ")" -> CommasOutside(Tail(text), depth - 1)
           [] Head(text) = "," /\ depth = 0 -> 1 + CommasOutside(Tail(text), depth)
           [] OTHER -> CommasOutside(Tail(text), depth)

\* price DECIMAL(10, 2) NOT NULL, name TEXT
PriceColumns ==
    <<"price", " ", "DECIMAL", "(", "10", ",", " ", "2", ")", " ", "NOT", " ", "NULL",
      ",", " ", "name", " ", "TEXT">>

\* the column lists of the CREATE TABLE statements of a migration text
ColumnListsOf(text) ==
    {Statements(text)[i].items :
        i \in {n \in 1..Len(Statements(text)) : Statements(text)[n].k = "createTable"}}

GeneratedColumnLists ==
    (IF pup # <<>> THEN ColumnListsOf(pup[1]) ELSE {})
    \cup (IF pdown # <<>> THEN ColumnListsOf(pdown[1]) ELSE {})

\* C21: a column list is cut only at the commas outside parentheses, so it
\* has one definition more than it has such commas; the list
\* price DECIMAL(10, 2) NOT NULL, name TEXT has two column definitions and
\* the type of price keeps both parameters; and the columns read from the
\* text of a generated CREATE TABLE are those of the statement.
C21_SplitOutsideParentheses ==
    /\ Len(smartSplitColumns(PriceColumns)) = 2
    /\ Len(parseColumnDefinitionsText(PriceColumns)) = 2
    /\ parseColumnDefinitionsText(PriceColumns)[1] =
           [Name |-> "price", Type |-> "decimal(10,2)", NotNull |-> TRUE, PrimaryKey |-> FALSE]
    /\ \A items \in GeneratedColumnLists :
           LET text == CreateTableColumnsText(items)
           IN  /\ Len(smartSplitColumns(text)) = CommasOutside(text, 0) + 1
               /\ Len(smartSplitColumns(text)) = Len(items)
               /\ parseColumnDefinitionsText(text) = parseColumnDefinitions(items)

\* a generated CREATE TABLE with a comma inside the parentheses of a type
C21_Witness ==
    \E items \in GeneratedColumnLists :
        /\ CommasOutside(CreateTableColumnsText(items), 0) = 2
        /\ Len(SplitOn(CreateTableColumnsText(items), ",")) = 4
        /\ parseColumnDefinitionsText(CreateTableColumnsText(items))[2].Type = "decimal(10,2)"

(***************************************************************************)
(* Statement blocks.                                                       *)
(***************************************************************************)
\* the Begin and End markers of a text alternate, Begin first, End last
MarkersAlternate(text) ==
    LET ms == SelectSeq(text, LAMBDA l : l.k \in {"begin", "end"})
    IN  /\ Len(ms) % 2 = 0
        /\ \A i \in 1..Len(ms) : ms[i].k = (IF i % 2 = 1 THEN "begin" ELSE "end")

\* the positions of the SQL statements of the block that line j opens
BlockStatements(text, j) ==
    {i \in (j + 1)..Len(text) :
        /\ IsSQL(text[i])
        /\ \A n \in j..i : text[n].k # "end"}

\* every SQL statement is inside a block
AllEnclosed(text) ==
    \A i \in 1..Len(text) :
        IsSQL(text[i]) =>
            \E j \in 1..(i - 1) : text[j].k = "begin" /\ i \in BlockStatements(text, j)

\* the largest number of statements a block of the text holds
BlocksHoldAtMost(text, n) ==
    \A j \in 1..Len(text) :
        text[j].k = "begin" => Cardinality(BlockStatements(text, j)) <= n

\* a block of two statements is one change of one column: ADD COLUMN with
\* the unique index of the column, or ALTER COLUMN TYPE with SET / DROP NOT NULL
OneChange(text, j) ==
    LET is == BlockStatements(text, j)
    IN  Cardinality(is) = 2 =>
            \E a, b \in is :
                /\ a < b
                /\ text[a].table = text[b].table
                /\ \/ /\ text[a].k = "addColumn"
                      /\ text[b].k = "createUniqueIndex"
                      /\ text[b].cols = <<text[a].item.name>>
                   \/ /\ text[a].k = "alterType"
                      /\ text[b].k \in {"setNotNull", "dropNotNull"}
                      /\ text[b].column = text[a].column

GeneratedTexts ==
    (IF pup # <<>> THEN {pup[1]} ELSE {}) \cup (IF pdown # <<>> THEN {pdown[1]} ELSE {})

OriginalCreateTable(m) ==
    CHOOSE stmt \in Range(addedTableSQL(m)) : stmt.k = "createTable"

\* what a CREATE TABLE says of its columns: name, type (letter case apart)
\* and whether NULL is refused
ColumnsDefined(stmt) ==
    {<<stmt.items[i].name, ToUpper(stmt.items[i].type),
       stmt.items[i].notNull \/ stmt.items[i].serialPK>> :
        i \in {n \in 1..Len(stmt.items) : stmt.items[n].k = "col"}}

\* the columns of the primary key of a CREATE TABLE
PrimaryKeyOf(stmt) ==
    {stmt.items[i].name :
        i \in {n \in 1..Len(stmt.items) : stmt.items[n].k = "col" /\ stmt.items[n].serialPK}}
    \cup UNION {Range(stmt.items[i].cols) :
                   i \in {n \in 1..Len(stmt.items) : stmt.items[n].k = "pk"}}

\* the models whose CREATE TABLE was replayed to give the current schema
ReplayedOrigins == {T1, TD}

\* C23: when the current schema is the replay of a CREATE TABLE and the
\* table is absent from the target, the CREATE TABLE of the down migration
\* has the columns of the original one, with the same types and nullability,
\* and the same primary key.
C23_DownRecreatesOriginal ==
    pdown # <<>> =>
        \A T \in ReplayedOrigins :
            (pa = ReplayOf(T) /\ pdiff[1].ModelsRemoved # <<>>) =>
                \A stmt \in CreateTablesOf(pdown[1], "users") :
                    /\ ColumnsDefined(stmt) = ColumnsDefined(OriginalCreateTable(T.Models[1]))
                    /\ PrimaryKeyOf(stmt) = PrimaryKeyOf(OriginalCreateTable(T.Models[1]))


(***************************************************************************)
(* Type changes without a casting rule.                                    *)
(***************************************************************************)
\* two types that map to different SQL types and have no casting rule
NoCastEntry(s, t) ==
    /\ ~SameSQLType(s, t)
    /\ <<GetPostgreSQLType(s), GetPostgreSQLType(t)>> \notin DOMAIN castingRules

ManualMessage(s, t) ==
    "No automatic casting available from " \o GetPostgreSQLType(s) \o " to "
    \o GetPostgreSQLType(t) \o ". Manual SQL migration required."

\* the modified columns whose type change has no casting rule
UncastableChanges(diff) ==
    {fc \in Range(diff.FieldsModified) :
        /\ IsMaterialized(fc.Field)
        /\ NoCastEntry(NormalizedType(fc.CurrentField), NormalizedType(fc.Field))}

\* the warning texts of the statement block that holds line i
BlockWarnings(text, i) ==
    {text[j].text : j \in {n \in BlockStart(text, i)..i : n > 0 /\ text[n].k = "warning"}}

\* the block of the column holds the commented-out placeholder under a
\* manual-intervention warning
HasManualPlaceholder(text, fc) ==
    LET s == NormalizedType(fc.CurrentField)
        t == NormalizedType(fc.Field)
        col == fc.ModelName \o "." \o fc.Field.ColumnName
        manual == "MANUAL INTERVENTION REQUIRED: " \o ManualMessage(s, t)
        tighten == "RISKY: Making " \o col
                   \o " NOT NULL - will fail if NULL values exist."
                   \o " Cannot be safely rolled back if data is modified!"
    IN  \E i \in 2..Len(text) :
            /\ text[i - 1] = Comment("ERROR: " \o ManualMessage(s, t))
            /\ text[i] = Comment("Manual migration required for " \o col)
            /\ BlockWarnings(text, i) \cap {manual, manual \o " | " \o tighten} # {}

AltersTypeOf(text, fc) ==
    \E st \in Range(Statements(text)) :
        /\ st.k = "alterType"
        /\ st.table = fc.ModelName
        /\ st.column = fc.Field.ColumnName

\* C24: for two types that map to different SQL types and have no casting
\* rule, CanCastType answers CanCast false with the message that a manual
\* migration is required; and the up migration holds for such a column no
\* ALTER COLUMN TYPE statement, only the commented-out placeholder under a
\* manual-intervention warning.
C24_NoRuleMeansManual ==
    /\ \A s, t \in CastTypeNames \cup NormalizedTypesOf(pa) \cup NormalizedTypesOf(pb) :
          NoCastEntry(s, t) =>
              /\ ~CanCastType(s, t).CanCast
              /\ CanCastType(s, t).WarningMessage = ManualMessage(s, t)
              /\ CanCastType(s, t).WarningMessage # ""
    /\ (pdiff # NoDiff /\ pup # <<>>) =>
          \A fc \in UncastableChanges(pdiff[1]) :
              /\ ~AltersTypeOf(pup[1], fc)
              /\ HasManualPlaceholder(pup[1], fc)

C24_Witness ==
    /\ pdiff # NoDiff
    /\ pup # <<>>
    /\ \E fc \in UncastableChanges(pdiff[1]) :
          /\ HasManualPlaceholder(pup[1], fc)
          /\ fc.CurrentField.IsOptional = fc.Field.IsOptional

(***************************************************************************)
(* Modified columns in the up migration.                                   *)
(***************************************************************************)
ColumnsModified(diff) == {fc \in Range(diff.FieldsModified) : IsMaterialized(fc.Field)}

\* text holds an ALTER COLUMN statement for the column
AltersColumn(text, fc) ==
    \E st \in Range(Statements(text)) :
        /\ st.k \in {"alterType", "setNotNull", "dropNotNull"}
        /\ st.table = fc.ModelName
        /\ st.column = fc.Field.ColumnName

NoChangesComment(fc) ==
    Comment("No changes detected for " \o fc.ModelName \o "." \o fc.Field.ColumnName)

\* C25: every modified column of the diff gets in the up migration an ALTER
\* COLUMN statement or the manual-intervention placeholder under its warning,
\* and never the comment that no changes were detected.
C25_ModifiedColumnIsAltered ==
    (pdiff # NoDiff /\ pup # <<>>) =>
        \A fc \in ColumnsModified(pdiff[1]) :
            /\ AltersColumn(pup[1], fc) \/ HasManualPlaceholder(pup[1], fc)
            /\ NoChangesComment(fc) \notin Range(pup[1])

(***************************************************************************)
(* Warnings of the up migration against the risks shown to the operator.   *)
(***************************************************************************)
ColumnOf(fc) == fc.ModelName \o "." \o fc.Field.ColumnName

ForwardCast(fc) == CanCastType(NormalizedType(fc.CurrentField), NormalizedType(fc.Field))

\* the annotations generate.go writes, and for each the risk of
\* analyzeRiskyOperations that stands for the same change
ConversionWarning(fc) ==
    "RISKY CONVERSION: " \o ColumnOf(fc) \o " from " \o NormalizedType(fc.CurrentField)
    \o " to " \o NormalizedType(fc.Field) \o " - " \o ForwardCast(fc).WarningMessage
    \o ". This cannot be safely rolled back!"
ConversionRisk(fc) ==
    "Field " \o ColumnOf(fc) \o ": " \o NormalizedType(fc.CurrentField) \o " -> "
    \o NormalizedType(fc.Field) \o " (" \o ForwardCast(fc).WarningMessage \o ")"

ManualWarning(fc) == "MANUAL INTERVENTION REQUIRED: " \o ForwardCast(fc).WarningMessage
ManualRisk(fc) ==
    "Field " \o ColumnOf(fc) \o ": " \o NormalizedType(fc.CurrentField) \o " -> "
    \o NormalizedType(fc.Field)
    \o " (Cannot be automatically cast - manual intervention required)"

TightenWarning(fc) ==
    "RISKY: Making " \o ColumnOf(fc) \o " NOT NULL - will fail if NULL values exist."
    \o " Cannot be safely rolled back if data is modified!"
TightenRisk(fc) ==
    "Field " \o ColumnOf(fc) \o ": Making nullable field NOT NULL (may fail if NULL values exist)"

DropColumnWarning(fc) ==
    "IRREVERSIBLE: Dropping column " \o ColumnOf(fc)
    \o " - all data in this column will be lost!"
DropColumnRisk(fc) == "Field " \o ColumnOf(fc) \o ": Being removed (column data will be lost)"

DropTableWarning(m) ==
    "IRREVERSIBLE: Dropping table " \o m.TableName \o " - all data will be lost!"
DropTableRisk(m) == "Table " \o m.TableName \o ": Being dropped (all data will be lost)"

\* <<annotation, risk>> for every annotation the diff can give rise to
Annotations(diff) ==
    UNION {{<<ConversionWarning(fc), ConversionRisk(fc)>>,
            <<ManualWarning(fc), ManualRisk(fc)>>,
            <<TightenWarning(fc), TightenRisk(fc)>>} : fc \in Range(diff.FieldsModified)}
    \cup {<<DropColumnWarning(fc), DropColumnRisk(fc)>> : fc \in Range(diff.FieldsRemoved)}
    \cup {<<DropTableWarning(m), DropTableRisk(m)>> : m \in Range(diff.ModelsRemoved)}

\* the annotations a warning line is made of: one, or two joined by " | "
PartsOf(text, diff) ==
    LET known == {a[1] : a \in Annotations(diff)}
    IN  IF text \in known THEN {{text}}
        ELSE {{p, q} : <<p, q>> \in {pq \in known \X known : text = pq[1] \o " | " \o pq[2]}}

WarningTexts(text) == {text[i].text : i \in {n \in 1..Len(text) : text[n].k = "warning"}}

\* C26: every warning line of the up migration is made of annotations of the
\* diff (risky conversion, manual intervention, NOT NULL tightening, column
\* drop, table drop), and for each of them analyzeRiskyOperations reports the
\* risk of the same change.
C26_WarningsAreReported ==
    (pdiff # NoDiff /\ pup # <<>>) =>
        \A w \in WarningTexts(pup[1]) :
            /\ PartsOf(w, pdiff[1]) # {}
            /\ \A parts \in PartsOf(w, pdiff[1]) : \A p \in parts :
                  \E a \in Annotations(pdiff[1]) :
                      a[1] = p /\ a[2] \in Range(analyzeRiskyOperations(pdiff[1]))

(***************************************************************************)
(* Names in the replayed schema.                                           *)
(***************************************************************************)
TablesTwice(schema) ==
    {<<i, j>> \in (1..Len(schema.Models)) \X (1..Len(schema.Models)) :
        i < j /\ schema.Models[i].TableName = schema.Models[j].TableName}

ColumnsTwice(model) ==
    {<<i, j>> \in (1..Len(model.Fields)) \X (1..Len(model.Fields)) :
        i < j /\ model.Fields[i].ColumnName = model.Fields[j].ColumnName}

\* C27: the schema replayed from the migrations directory never holds two
\* models of one table name, nor a model with two fields of one column name.
C27_ReplayedNamesAreUnique ==
    /\ TablesTwice(ReplayedSchema) = {}
    /\ \A i \in 1..Len(ReplayedSchema.Models) : ColumnsTwice(ReplayedSchema.Models[i]) = {}

(***************************************************************************)
(* Classification of the columns of the tables of both schemas.            *)
(***************************************************************************)
TablesOfSchema(schema) == {schema.Models[i].TableName : i \in 1..Len(schema.Models)}

\* the fields of table t in the schema; of two fields of one column name the
\* later one stands for the column
FieldsOfTable(schema, t) ==
    LET i == CHOOSE n \in 1..Len(schema.Models) :
                 /\ schema.Models[n].TableName = t
                 /\ \A j \in (n + 1)..Len(schema.Models) : schema.Models[j].TableName # t
    IN  schema.Models[i].Fields

ColumnNamesIn(fields) == {fields[i].ColumnName : i \in 1..Len(fields)}

ColumnIn(fields, c) ==
    fields[CHOOSE i \in 1..Len(fields) :
               /\ fields[i].ColumnName = c
               /\ \A j \in (i + 1)..Len(fields) : fields[j].ColumnName # c]

\* how often the list holds an entry for column c of table t
Entries(list, t, c) ==
    Cardinality({i \in 1..Len(list) : list[i].ModelName = t /\ list[i].Field.ColumnName = c})

FieldsDiffer(cf, tf) ==
    \/ GetSQLTypeForField(cf) # GetSQLTypeForField(tf)
    \/ cf.IsOptional # tf.IsOptional
    \/ cf.IsArray # tf.IsArray

\* C28: for a table of both schemas, a column name is once in FieldsAdded when
\* only the target has it, once in FieldsRemoved when only the current schema
\* has it, once in FieldsModified when both have it and the two fields differ
\* in SQL type, IsOptional or IsArray, and in no list otherwise; and the three
\* lists hold entries for tables of both schemas only.
C28_ColumnClassifiedOnce ==
    pdiff # NoDiff =>
        LET diff == pdiff[1]
            both == TablesOfSchema(pa) \cap TablesOfSchema(pb)
        IN  /\ \A t \in both :
                  LET cur == FieldsOfTable(pa, t)
                      tgt == FieldsOfTable(pb, t)
                  IN  \A c \in ColumnNamesIn(cur) \cup ColumnNamesIn(tgt) :
                          LET inCur == c \in ColumnNamesIn(cur)
                              inTgt == c \in ColumnNamesIn(tgt)
                          IN  /\ Entries(diff.FieldsAdded, t, c)
                                    = IF inTgt /\ ~inCur THEN 1 ELSE 0
                              /\ Entries(diff.FieldsRemoved, t, c)
                                    = IF inCur /\ ~inTgt THEN 1 ELSE 0
                              /\ Entries(diff.FieldsModified, t, c)
                                    = IF inCur /\ inTgt
                                           /\ FieldsDiffer(ColumnIn(cur, c), ColumnIn(tgt, c))
                                        THEN 1 ELSE 0
            /\ \A fc \in Range(diff.FieldsAdded) \cup Range(diff.FieldsRemoved)
                         \cup Range(diff.FieldsModified) :
                  /\ fc.ModelName \in both
                  /\ fc.Field.ColumnName
                        \in ColumnNamesIn(FieldsOfTable(pa, fc.ModelName))
                            \cup ColumnNamesIn(FieldsOfTable(pb, fc.ModelName))

\* a diff with an added, a removed, a modified and an unchanged column, next
\* to an added and a removed table
C28_Witness ==
    /\ pdiff # NoDiff
    /\ pdiff[1].FieldsAdded # <<>>
    /\ pdiff[1].FieldsRemoved # <<>>
    /\ pdiff[1].FieldsModified # <<>>
    /\ pdiff[1].ModelsAdded # <<>>
    /\ pdiff[1].ModelsRemoved # <<>>
    /\ \E t \in TablesOfSchema(pa) \cap TablesOfSchema(pb) :
          \E c \in ColumnNamesIn(FieldsOfTable(pa, t)) \cap ColumnNamesIn(FieldsOfTable(pb, t)) :
              ~FieldsDiffer(ColumnIn(FieldsOfTable(pa, t), c), ColumnIn(FieldsOfTable(pb, t), c))

(***************************************************************************)
(* Cast expressions.                                                       *)
(***************************************************************************)
SQLTypeNames == {p[2] : p \in DOMAIN castingRules}

\* a fragment that makes an expression when written after a column: ::<type>
IsSuffixCast(expr) == \E type \in SQLTypeNames : expr = "::" \o type

\* C29: every casting rule that allows the cast carries an expression of the
\* form ::<type>, and every USING clause of the up migration is the column
\* followed by such a fragment.
C29_CastIsSuffix ==
    /\ \A p \in DOMAIN castingRules :
          castingRules[p].CanCast => IsSuffixCast(castingRules[p].CastExpression)
    /\ pup # <<>> =>
          \A st \in Range(Statements(pup[1])) :
              (st.k = "alterType" /\ st.using # "") =>
                  \E type \in SQLTypeNames : st.using = st.column \o "::" \o type

(***************************************************************************)
(* Blocks of the schema text.                                              *)
(***************************************************************************)
SchemaTexts == {BlogText, BlogTextPlain, BlogTextDense, ProductText, ConfiguredText}

\* line i of the text opens a block: <keyword> <name> {
Opens(text, i) == text[i] # <<>> /\ text[i][Len(text[i])] = "{"

Closes(text, i) == TrimSpaces(text[i]) = <<"}">>

\* line i says something: neither empty nor a comment
Says(text, i) == TrimSpaces(text[i]) # <<>> /\ Head(TrimSpaces(text[i])) # "//"

\* the lines inside the block that line j opens, attribute lines of the block
\* apart, in the order of the text
LinesInside(text, j) ==
    SelectSeq([i \in 1..Len(text) |-> i],
              LAMBDA i : /\ i > j
                         /\ \A n \in (j + 1)..i : ~Opens(text, n) /\ ~Closes(text, n)
                         /\ Says(text, i)
                         /\ ~IsBlockAttribute(TrimSpaces(text[i])))

\* the lines that open a block of the keyword, in the order of the text
BlocksOf(text, keyword) ==
    SelectSeq([i \in 1..Len(text) |-> i],
              LAMBDA i : Opens(text, i) /\ text[i][1] = keyword)

WordOf(line, n) == Concat(StringsFields(line)[n])

====
